---- MODULE Spec2Model ----
(***************************************************************************)
(* A model of the bird-tracker Django application (birdapp): the record    *)
(* store (Location, Sighting, Bird, Family, Trip), the views that change   *)
(* it and the views that aggregate it.  Every request handler is one action; the handler's  *)
(* outcome is left in the variable response.                               *)
(***************************************************************************)
EXTENDS Integers, Sequences, FiniteSets, Bags, TLC

VARIABLES
    locations,          \* Location table: id -> [location_name, parent_location]
    next_location_id,   \* the id the next inserted Location gets
    sightings,          \* Sighting table: id -> [bird, location, trip, date_seen]
    next_sighting_id,   \* the id the next inserted Sighting gets
    birds,              \* Bird table: id -> [english_name, family]
    next_bird_id,       \* the id the next inserted Bird gets
    families,           \* Family table: id -> [family_name]
    next_family_id,     \* the id the next inserted Family gets
    trips,              \* Trip table: id -> [trip_name, start_date, end_date]
    next_trip_id,       \* the id the next inserted Trip gets
    response,           \* what the last request handler returned
    inflight            \* the requests in progress whose handler has run a
                        \* part of its queries: request id -> what it holds

\* The Bird, Family and Trip tables with their id counters.
catalogue == <<birds, next_bird_id, families, next_family_id, trips, next_trip_id>>

vars == <<locations, next_location_id, sightings, next_sighting_id, catalogue,
          response, inflight>>

----------------------------------------------------------------------------
(* Bounds of the model.                                                    *)

\* Location ids are 1..MaxLocationId (the table's autoincrement stops there).
MaxLocationId == 3
\* Sighting ids are 1..MaxSightingId in the specifications of the Location
\* hierarchy, 1..MaxListSightingId in the specification of the list views.
MaxSightingId == 2
MaxListSightingId == 3
\* The paging specification starts with up to MaxPageEntries birds sighted.
MaxPageEntries == 11
\* Bird ids are 1..MaxBirdId.
MaxBirdId == 2
\* location_name values are 1..MaxName, standing for strings in collation order.
MaxName == 2
\* Python frames left for get_all_child_locations before RecursionError
\* (sys.getrecursionlimit() in CPython, scaled to the model's forests).
RecursionLimit == 6

\* Family ids are 1..MaxFamilyId and Trip ids 1..MaxTripId.
MaxFamilyId == 1
MaxTripId == 1
\* At most this many requests are in progress at once.
MaxRequests == 2

\* parent_location = NoLocation is SQL NULL / Python None.
NoLocation == 0
\* Sighting.trip = NoTrip and Bird.family = NoFamily are SQL NULL as well.
NoTrip == 0
NoFamily == 0
\* A blank location_name in a submitted form (fails "required").
BlankName == 0

LocationIds == 1..MaxLocationId
Birds == 1..MaxBirdId
Names == 1..MaxName

----------------------------------------------------------------------------
(* Dates: datetime.date values, compared as Python and SQL compare them.   *)

Years == {2022, 2023}
Months == {1, 2}
Days == {1, 2}
Dates == [year : Years, month : Months, day : Days]

DateLt(a, b) ==
    \/ a.year < b.year
    \/ a.year = b.year /\ a.month < b.month
    \/ a.year = b.year /\ a.month = b.month /\ a.day < b.day

DateLe(a, b) == a = b \/ DateLt(a, b)

----------------------------------------------------------------------------
(* The Location hierarchy.                                                 *)

\* Restriction of a table (a function) to the rows whose id is in keep.
Restrict(table, keep) == [id \in keep |-> table[id]]

\* Location.objects.filter(parent_location=location), as a set of ids.
ChildrenOf(locs, location) ==
    {c \in DOMAIN locs : locs[c].parent_location = location}

\* The bag sum of the bags f[c], c in S.
RECURSIVE BagSum(_, _)
BagSum(f, S) ==
    IF S = {} THEN EmptyBag
    ELSE LET c == CHOOSE x \in S : TRUE
         IN f[c] (+) BagSum(f, S \ {c})

\* get_all_child_locations with `depth` Python frames already on the stack.
\* The returned list is kept as a bag of location ids (how often each id
\* occurs in the list); raised is TRUE when the recursion ran out of frames.
RECURSIVE get_all_child_locations_at(_, _, _)
get_all_child_locations_at(locs, location, depth) ==
    IF depth > RecursionLimit
    THEN [raised |-> TRUE, value |-> EmptyBag]
    ELSE LET children == ChildrenOf(locs, location)
             below == [c \in children |->
                          get_all_child_locations_at(locs, c, depth + 1)]
         IN IF \E c \in children : below[c].raised
            THEN [raised |-> TRUE, value |-> EmptyBag]
            ELSE [raised |-> FALSE,
                  value |-> SetToBag(children)
                            (+) BagSum([c \in children |-> below[c].value], children)]

\* A variant that stops at the direct children.
get_all_child_locations_direct_only(locs, location) ==
    [raised |-> FALSE, value |-> SetToBag(ChildrenOf(locs, location))]

\* A variant that lists the location itself with its descendants.
get_all_child_locations_with_self(locs, location) ==
    LET r == get_all_child_locations_at(locs, location, 1)
    IN [raised |-> r.raised, value |-> r.value (+) SetToBag({location})]

get_all_child_locations(locs, location) ==
    get_all_child_locations_at(locs, location, 1)

\* A variant of the walk that tests the proposed parent only.
circular_walk_self_only(locs, current, location_id, fuel) ==
    IF current = location_id THEN "circular" ELSE "ok"

\* A variant of the walk that starts above the proposed parent.
RECURSIVE circular_walk_above(_, _, _, _)
circular_walk_above(locs, current, location_id, fuel) ==
    IF current = NoLocation THEN "ok"
    ELSE IF locs[current].parent_location = location_id THEN "circular"
    ELSE IF fuel = 0 THEN "diverges"
    ELSE circular_walk_above(locs, locs[current].parent_location, location_id,
                             fuel - 1)

\* The loop `while current: ... current = current.parent_location` of
\* location_edit, started at new_parent: "circular" when it meets the edited
\* location, "ok" when it runs off the root, "diverges" when it never ends
\* (a parent cycle that does not hold the edited location).
RECURSIVE circular_walk(_, _, _, _)
circular_walk(locs, current, location_id, fuel) ==
    IF current = NoLocation THEN "ok"
    ELSE IF current = location_id THEN "circular"
    ELSE IF fuel = 0 THEN "diverges"
    ELSE circular_walk(locs, locs[current].parent_location, location_id, fuel - 1)

\* Rows removed by Model.delete() on location l: on_delete=CASCADE follows
\* Location.parent_location and Sighting.location transitively.
RECURSIVE cascade_locations(_, _)
cascade_locations(locs, doomed) ==
    LET more == {c \in DOMAIN locs : locs[c].parent_location \in doomed} \ doomed
    IN IF more = {} THEN doomed ELSE cascade_locations(locs, doomed \cup more)

----------------------------------------------------------------------------
(* Initial states.                                                         *)

NoResponse == [view |-> "none"]

\* The requests that can be in progress at once, and a request id whose
\* request has not started or has been answered.
Requests == 1..MaxRequests
Idle == [view |-> "none"]
NoRequests == [r \in Requests |-> Idle]

\* The Bird table holding birds 1..n without a family, no Family and no
\* Trip: the species catalogue the sightings of a specification refer to.
BirdsLoaded(n) ==
    /\ birds = [b \in 1..n |-> [english_name |-> 1, family |-> NoFamily]]
    /\ next_bird_id = n + 1
    /\ families = <<>>
    /\ next_family_id = 1
    /\ trips = <<>>
    /\ next_trip_id = 1

\* A database with the bird catalogue loaded and no other row.
Init ==
    /\ locations = <<>>
    /\ next_location_id = 1
    /\ sightings = <<>>
    /\ next_sighting_id = 1
    /\ BirdsLoaded(MaxBirdId)
    /\ response = NoResponse
    /\ inflight = NoRequests

----------------------------------------------------------------------------
(* Views that change the store.                                            *)

\* LocationForm.is_valid(): location_name is required, parent_location is
\* optional and must be a row of Location.objects.all().
LocationForm_is_valid(locs, name, parent) ==
    /\ name \in Names
    /\ parent = NoLocation \/ parent \in DOMAIN locs

\* location_add, POST and GET.
location_add(method, name, parent) ==
    /\ UNCHANGED inflight
    /\ next_location_id <= MaxLocationId
    /\ UNCHANGED catalogue
    /\ IF method = "POST"
       THEN IF LocationForm_is_valid(locations, name, parent)
            THEN /\ locations' = [id \in DOMAIN locations \cup {next_location_id} |->
                        IF id = next_location_id
                        THEN [location_name |-> name, parent_location |-> parent]
                        ELSE locations[id]]
                 /\ next_location_id' = next_location_id + 1
                 /\ response' = [view |-> "location_add", status |-> "redirect",
                                 location_id |-> next_location_id]
            ELSE /\ UNCHANGED <<locations, next_location_id>>
                 /\ response' = [view |-> "location_add", status |-> "form_errors"]
       ELSE /\ UNCHANGED <<locations, next_location_id>>
            /\ response' = [view |-> "location_add", status |-> "form",
                            parent |-> parent,
                            initial_parent |-> IF parent \in DOMAIN locations
                                               THEN parent ELSE NoLocation]
    /\ UNCHANGED <<sightings, next_sighting_id>>

\* location_edit, POST and GET.
location_edit(location_id, method, name, parent) ==
    /\ UNCHANGED inflight
    /\ UNCHANGED <<next_location_id, sightings, next_sighting_id, catalogue>>
    /\ IF location_id \notin DOMAIN locations
       THEN /\ UNCHANGED locations
            /\ response' = [view |-> "location_edit", status |-> "404"]
       ELSE IF method # "POST"
       THEN /\ UNCHANGED locations
            /\ response' = [view |-> "location_edit", status |-> "form"]
       ELSE IF ~LocationForm_is_valid(locations, name, parent)
       THEN /\ UNCHANGED locations
            /\ response' = [view |-> "location_edit", status |-> "form_errors"]
       ELSE LET walk == circular_walk(locations, parent, location_id,
                                      Cardinality(DOMAIN locations))
            IN IF walk = "circular"
               THEN /\ UNCHANGED locations
                    /\ response' = [view |-> "location_edit", status |-> "circular",
                                    location_id |-> location_id, new_parent |-> parent]
               ELSE IF walk = "diverges"
               THEN /\ UNCHANGED locations
                    /\ response' = [view |-> "location_edit", status |-> "hang"]
               ELSE /\ locations' = [locations EXCEPT ![location_id] =
                            [location_name |-> name, parent_location |-> parent]]
                    /\ response' = [view |-> "location_edit", status |-> "redirect",
                                    location_id |-> location_id]

\* Model.delete() on the locations in doomed, with its cascade.
delete_locations(doomed) ==
    LET gone == cascade_locations(locations, doomed)
    IN /\ locations' = Restrict(locations, DOMAIN locations \ gone)
       /\ sightings' = Restrict(sightings,
              {s \in DOMAIN sightings : sightings[s].location \notin gone})

\* Sighting.objects.filter(location=location_obj).count()
sighting_count(location_id) ==
    Cardinality({s \in DOMAIN sightings : sightings[s].location = location_id})

\* Location.objects.filter(parent_location=location_obj).count()
child_count(location_id) == Cardinality(ChildrenOf(locations, location_id))

\* location_delete (POST only).
location_delete(location_id) ==
    /\ UNCHANGED inflight
    /\ UNCHANGED <<next_location_id, next_sighting_id, catalogue>>
    /\ IF location_id \notin DOMAIN locations
       THEN /\ UNCHANGED <<locations, sightings>>
            /\ response' = [view |-> "location_delete", status |-> "404",
                            location_id |-> location_id]
       ELSE IF sighting_count(location_id) > 0
       THEN /\ UNCHANGED <<locations, sightings>>
            /\ response' = [view |-> "location_delete", status |-> "json",
                            location_id |-> location_id,
                            success |-> FALSE, blocked_by |-> "sightings"]
       ELSE IF child_count(location_id) > 0
       THEN /\ UNCHANGED <<locations, sightings>>
            /\ response' = [view |-> "location_delete", status |-> "json",
                            location_id |-> location_id,
                            success |-> FALSE, blocked_by |-> "children"]
       ELSE /\ delete_locations({location_id})
            /\ response' = [view |-> "location_delete", status |-> "json",
                            location_id |-> location_id,
                            success |-> TRUE, blocked_by |-> "nothing"]

\* A variant of location_bulk_delete that deletes the locations it can
\* delete although others of the selection are blocked.
location_bulk_delete_partial(selected) ==
    /\ UNCHANGED inflight
    /\ UNCHANGED <<next_location_id, next_sighting_id, catalogue>>
    /\ IF selected = {} \/ ~(selected \subseteq DOMAIN locations)
       THEN /\ UNCHANGED <<locations, sightings>>
            /\ response' = [view |-> "location_bulk_delete", success |-> FALSE,
                            message |-> "invalid"]
       ELSE LET locations_to_delete ==
                    {l \in selected : sighting_count(l) = 0 /\ child_count(l) = 0}
            IN /\ delete_locations(locations_to_delete)
               /\ response' = [view |-> "location_bulk_delete",
                               success |-> TRUE, message |-> "deleted",
                               deleted_count |-> Cardinality(locations_to_delete)]

\* location_bulk_delete (POST only); selected is the submitted id set.
location_bulk_delete(selected) ==
    /\ UNCHANGED inflight
    /\ UNCHANGED <<next_location_id, next_sighting_id, catalogue>>
    /\ IF selected = {} \/ ~(selected \subseteq DOMAIN locations)
       THEN /\ UNCHANGED <<locations, sightings>>
            /\ response' = [view |-> "location_bulk_delete", success |-> FALSE,
                            message |-> "invalid"]
       ELSE LET locations_with_sightings ==
                    {l \in selected : sighting_count(l) > 0}
                locations_with_children ==
                    {l \in selected : sighting_count(l) = 0 /\ child_count(l) > 0}
                locations_to_delete ==
                    (selected \ locations_with_sightings) \ locations_with_children
            IN IF locations_with_sightings # {} \/ locations_with_children # {}
               THEN /\ UNCHANGED <<locations, sightings>>
                    /\ response' = [view |-> "location_bulk_delete",
                                    success |-> FALSE, message |-> "blocked"]
               ELSE /\ delete_locations(locations_to_delete)
                    /\ response' = [view |-> "location_bulk_delete",
                                    success |-> TRUE, message |-> "deleted",
                                    deleted_count |->
                                        Cardinality(locations_to_delete)]

\* A submitted value that is read as a number is [kind, val]: kind "int"
\* (a numeric string or an int, value val), "text" (not a number) or
\* "absent" (None).
IntParam(n) == [kind |-> "int", val |-> n]
TextParam == [kind |-> "text", val |-> 0]
AbsentParam == [kind |-> "absent", val |-> 0]

\* SightingForm.is_valid(): bird and location are required rows, trip is
\* an optional row, date_seen is a required date.
SightingForm_is_valid(bird, location, trip, date_seen) ==
    /\ bird \in DOMAIN birds
    /\ location \in DOMAIN locations
    /\ trip = NoTrip \/ trip \in DOMAIN trips
    /\ date_seen \in Dates

\* The count field of SightingForm: the model field is IntegerField
\* (default=1) without validators of its own, so the form field is a
\* required integer within the range of the database column; the `min`
\* of the NumberInput widget is an attribute of the rendered HTML only.
\* The field is a record of kind "int", "text" or "absent".
SightingForm_count_is_valid(count) ==
    /\ count.kind = "int"
    /\ count.val >= 0 - 2147483647 - 1
    /\ count.val <= 2147483647

\* add_sighting, POST, with the count field as submitted.
add_sighting_counted(bird, location, trip, date_seen, count) ==
    /\ UNCHANGED inflight
    /\ UNCHANGED <<locations, next_location_id, catalogue>>
    /\ IF /\ SightingForm_is_valid(bird, location, trip, date_seen)
          /\ SightingForm_count_is_valid(count)
       THEN /\ sightings' = [id \in DOMAIN sightings \cup {next_sighting_id} |->
                   IF id = next_sighting_id
                   THEN [bird |-> bird, location |-> location, trip |-> trip,
                         date_seen |-> date_seen, count |-> count.val]
                   ELSE sightings[id]]
            /\ next_sighting_id' = next_sighting_id + 1
            /\ response' = [view |-> "add_sighting", status |-> "redirect"]
       ELSE /\ UNCHANGED <<sightings, next_sighting_id>>
            /\ response' = [view |-> "add_sighting", status |-> "form_errors"]

\* add_sighting, POST, from the rendered form with its count left at the
\* widget's value of 1.
add_sighting(bird, location, trip, date_seen) ==
    add_sighting_counted(bird, location, trip, date_seen, IntParam(1))

----------------------------------------------------------------------------
(* The Bird, Family and Trip views that change the store.                  *)

\* FamilyForm.is_valid(): family_name is required.
FamilyForm_is_valid(family_name) == family_name \in Names

\* family_add, POST.
family_add(family_name) ==
    /\ UNCHANGED inflight
    /\ UNCHANGED <<locations, next_location_id, sightings, next_sighting_id,
                   birds, next_bird_id, trips, next_trip_id>>
    /\ IF FamilyForm_is_valid(family_name)
       THEN /\ families' = [id \in DOMAIN families \cup {next_family_id} |->
                   IF id = next_family_id
                   THEN [family_name |-> family_name] ELSE families[id]]
            /\ next_family_id' = next_family_id + 1
            /\ response' = [view |-> "family_add", status |-> "redirect"]
       ELSE /\ UNCHANGED <<families, next_family_id>>
            /\ response' = [view |-> "family_add", status |-> "form_errors"]

\* BirdForm.is_valid(): english_name and latin_name are required, family is
\* an optional row of Family.
BirdForm_is_valid(english_name, latin_name, family) ==
    /\ english_name \in Names
    /\ latin_name \in Names
    /\ family = NoFamily \/ family \in DOMAIN families

\* bird_add, POST.
bird_add(english_name, latin_name, family) ==
    /\ UNCHANGED inflight
    /\ UNCHANGED <<locations, next_location_id, sightings, next_sighting_id,
                   families, next_family_id, trips, next_trip_id>>
    /\ IF BirdForm_is_valid(english_name, latin_name, family)
       THEN /\ birds' = [id \in DOMAIN birds \cup {next_bird_id} |->
                   IF id = next_bird_id
                   THEN [english_name |-> english_name, family |-> family]
                   ELSE birds[id]]
            /\ next_bird_id' = next_bird_id + 1
            /\ response' = [view |-> "bird_add", status |-> "redirect",
                            bird_id |-> next_bird_id]
       ELSE /\ UNCHANGED <<birds, next_bird_id>>
            /\ response' = [view |-> "bird_add", status |-> "form_errors"]

\* A date field of a POST: a date in %Y-%m-%d, text in another shape, or
\* nothing.
DateField(d) == [kind |-> "date", date |-> d]
BadDateField == [kind |-> "text", date |-> 0]
BlankDateField == [kind |-> "blank", date |-> 0]

\* trip_add, POST.
trip_add(trip_name, start_date, end_date) ==
    /\ UNCHANGED inflight
    /\ UNCHANGED <<locations, next_location_id, sightings, next_sighting_id,
                   birds, next_bird_id, families, next_family_id>>
    /\ IF \/ trip_name = BlankName
          \/ start_date.kind = "blank"
          \/ end_date.kind = "blank"
       THEN /\ UNCHANGED <<trips, next_trip_id>>
            /\ response' = [view |-> "trip_add", status |-> "form",
                            message |-> "required"]
       ELSE IF start_date.kind # "date"
       THEN /\ UNCHANGED <<trips, next_trip_id>>
            /\ response' = [view |-> "trip_add", status |-> "form",
                            message |-> "invalid_date"]
       ELSE IF end_date.kind # "date"
       THEN /\ UNCHANGED <<trips, next_trip_id>>
            /\ response' = [view |-> "trip_add", status |-> "form",
                            message |-> "invalid_date"]
       ELSE IF DateLt(end_date.date, start_date.date)
       THEN /\ UNCHANGED <<trips, next_trip_id>>
            /\ response' = [view |-> "trip_add", status |-> "form",
                            message |-> "end_before_start"]
       ELSE /\ trips' = [id \in DOMAIN trips \cup {next_trip_id} |->
                   IF id = next_trip_id
                   THEN [trip_name |-> trip_name, start_date |-> start_date.date,
                         end_date |-> end_date.date]
                   ELSE trips[id]]
            /\ next_trip_id' = next_trip_id + 1
            /\ response' = [view |-> "trip_add", status |-> "redirect",
                            trip_id |-> next_trip_id]

\* Bird.delete(): the row and, by on_delete=CASCADE, its sightings.
delete_bird(bird_id) ==
    /\ birds' = Restrict(birds, DOMAIN birds \ {bird_id})
    /\ sightings' = Restrict(sightings,
           {s \in DOMAIN sightings : sightings[s].bird # bird_id})

\* A variant of bird_delete that deletes without counting the sightings.
bird_delete_unguarded(bird_id) ==
    /\ UNCHANGED inflight
    /\ UNCHANGED <<locations, next_location_id, next_sighting_id, next_bird_id,
                   families, next_family_id, trips, next_trip_id>>
    /\ IF bird_id \notin DOMAIN birds
       THEN /\ UNCHANGED <<birds, sightings>>
            /\ response' = [view |-> "bird_delete", status |-> "404",
                            bird_id |-> bird_id]
       ELSE /\ delete_bird(bird_id)
            /\ response' = [view |-> "bird_delete", status |-> "json",
                            bird_id |-> bird_id, success |-> TRUE]

\* bird_delete (POST only).
bird_delete(bird_id) ==
    /\ UNCHANGED inflight
    /\ UNCHANGED <<locations, next_location_id, next_sighting_id, next_bird_id,
                   families, next_family_id, trips, next_trip_id>>
    /\ IF bird_id \notin DOMAIN birds
       THEN /\ UNCHANGED <<birds, sightings>>
            /\ response' = [view |-> "bird_delete", status |-> "404",
                            bird_id |-> bird_id]
       ELSE IF Cardinality({s \in DOMAIN sightings :
                               sightings[s].bird = bird_id}) > 0
       THEN /\ UNCHANGED <<birds, sightings>>
            /\ response' = [view |-> "bird_delete", status |-> "json",
                            bird_id |-> bird_id, success |-> FALSE]
       ELSE /\ delete_bird(bird_id)
            /\ response' = [view |-> "bird_delete", status |-> "json",
                            bird_id |-> bird_id, success |-> TRUE]

\* The selected_birds field of a bird_bulk_delete POST: a comma-separated
\* text of ids, or a text that int() rejects.
BirdSelection(ids) == [kind |-> "ids", ids |-> ids]
BadBirdSelection == [kind |-> "text", ids |-> {}]

\* bird_bulk_delete (POST only).
bird_bulk_delete(selected_birds) ==
    /\ UNCHANGED inflight
    /\ UNCHANGED <<locations, next_location_id, next_sighting_id, next_bird_id,
                   families, next_family_id, trips, next_trip_id>>
    /\ IF selected_birds.kind # "ids" \/ selected_birds.ids = {}
       THEN /\ UNCHANGED <<birds, sightings>>
            /\ response' = [view |-> "bird_bulk_delete", success |-> FALSE,
                            message |-> "invalid"]
       ELSE LET found == selected_birds.ids \cap DOMAIN birds
                birds_with_sightings ==
                    {b \in found : Cardinality({s \in DOMAIN sightings :
                                                   sightings[s].bird = b}) > 0}
                birds_to_delete == found \ birds_with_sightings
            IN IF birds_with_sightings # {}
               THEN /\ UNCHANGED <<birds, sightings>>
                    /\ response' = [view |-> "bird_bulk_delete",
                                    success |-> FALSE, message |-> "blocked"]
               ELSE /\ birds' = Restrict(birds, DOMAIN birds \ birds_to_delete)
                    /\ sightings' = Restrict(sightings,
                           {s \in DOMAIN sightings :
                               sightings[s].bird \notin birds_to_delete})
                    /\ response' = [view |-> "bird_bulk_delete",
                                    success |-> TRUE, message |-> "deleted",
                                    deleted_count |-> Cardinality(birds_to_delete)]

\* Family.delete(): the row and, by on_delete=CASCADE, its birds and their
\* sightings.
delete_family(family_id) ==
    LET gone == {b \in DOMAIN birds : birds[b].family = family_id}
    IN /\ families' = Restrict(families, DOMAIN families \ {family_id})
       /\ birds' = Restrict(birds, DOMAIN birds \ gone)
       /\ sightings' = Restrict(sightings,
              {s \in DOMAIN sightings : sightings[s].bird \notin gone})

\* family_delete (POST only).
family_delete(family_id) ==
    /\ UNCHANGED inflight
    /\ UNCHANGED <<locations, next_location_id, next_sighting_id, next_bird_id,
                   next_family_id, trips, next_trip_id>>
    /\ IF family_id \notin DOMAIN families
       THEN /\ UNCHANGED <<families, birds, sightings>>
            /\ response' = [view |-> "family_delete", status |-> "404",
                            family_id |-> family_id]
       ELSE IF Cardinality({b \in DOMAIN birds : birds[b].family = family_id}) > 0
       THEN /\ UNCHANGED <<families, birds, sightings>>
            /\ response' = [view |-> "family_delete", status |-> "json",
                            family_id |-> family_id, success |-> FALSE]
       ELSE /\ delete_family(family_id)
            /\ response' = [view |-> "family_delete", status |-> "json",
                            family_id |-> family_id, success |-> TRUE]

\* A variant that leaves the sightings of the trip as they are.
dereference_trip_skipped(table, trip_id) == table

\* Sighting.objects.filter(trip=trip).update(trip=None)
dereference_trip(table, trip_id) ==
    [s \in DOMAIN table |->
        IF table[s].trip = trip_id THEN [table[s] EXCEPT !.trip = NoTrip]
        ELSE table[s]]

\* Trip.delete() on a table of sightings: by on_delete=CASCADE the sightings
\* that still reference the trip go with it.
cascade_trip(table, trip_id) ==
    Restrict(table, {s \in DOMAIN table : table[s].trip # trip_id})

\* trip_delete, POST and GET, the POST as one transaction.
trip_delete(trip_id, method) ==
    /\ UNCHANGED inflight
    /\ UNCHANGED <<locations, next_location_id, next_sighting_id, birds,
                   next_bird_id, families, next_family_id, next_trip_id>>
    /\ IF trip_id \notin DOMAIN trips
       THEN /\ UNCHANGED <<trips, sightings>>
            /\ response' = [view |-> "trip_delete", status |-> "404",
                            trip_id |-> trip_id]
       ELSE IF method = "POST"
       THEN /\ sightings' = cascade_trip(dereference_trip(sightings, trip_id),
                                         trip_id)
            /\ trips' = Restrict(trips, DOMAIN trips \ {trip_id})
            /\ response' = [view |-> "trip_delete", status |-> "redirect",
                            trip_id |-> trip_id,
                            sighting_count |->
                                Cardinality({s \in DOMAIN sightings :
                                                sightings[s].trip = trip_id})]
       ELSE /\ UNCHANGED <<trips, sightings>>
            /\ response' = [view |-> "trip_delete", status |-> "confirm",
                            trip_id |-> trip_id,
                            sighting_count |->
                                Cardinality({s \in DOMAIN sightings :
                                                sightings[s].trip = trip_id})]

----------------------------------------------------------------------------
(* Aggregation over Sighting rows (QuerySet.values/annotate/order_by).      *)

\* The set of the elements of a sequence.
Range(seq) == {seq[i] : i \in 1..Len(seq)}

\* Min('date_seen') and Max('date_seen') over a non-empty set of dates.
MinDate(ds) == CHOOSE d \in ds : \A e \in ds : DateLe(d, e)
MaxDate(ds) == CHOOSE d \in ds : \A e \in ds : DateLe(e, d)

\* The smallest id of a non-empty id set: QuerySet.first() on a queryset
\* without ordering sorts by primary key.
first(ids) == CHOOSE i \in ids : \A j \in ids : i <= j

\* A variant of the grouping with Min and Max the wrong way round.
values_bird_annotate_swapped(table, qs) ==
    {[bird |-> b,
      first_seen |-> MaxDate({table[s].date_seen : s \in {t \in qs : table[t].bird = b}}),
      last_seen |-> MinDate({table[s].date_seen : s \in {t \in qs : table[t].bird = b}})]
     : b \in {table[s].bird : s \in qs}}

\* A variant of the grouping that takes Min and Max over every sighting of
\* the bird, inside the queryset or not.
values_bird_annotate_all_time(table, qs) ==
    {[bird |-> b,
      first_seen |-> MinDate({table[s].date_seen :
                                 s \in {t \in DOMAIN table : table[t].bird = b}}),
      last_seen |-> MaxDate({table[s].date_seen :
                                s \in {t \in DOMAIN table : table[t].bird = b}})]
     : b \in {table[s].bird : s \in qs}}

\* qs.values('bird').annotate(first_seen=Min('date_seen'),
\* last_seen=Max('date_seen')): one row per bird that has a row in qs.
\* qs is a set of sighting ids of the table.
values_bird_annotate(table, qs) ==
    {[bird |-> b,
      first_seen |-> MinDate({table[s].date_seen : s \in {t \in qs : table[t].bird = b}}),
      last_seen |-> MaxDate({table[s].date_seen : s \in {t \in qs : table[t].bird = b}})]
     : b \in {table[s].bird : s \in qs}}

\* A variant that sorts by last_seen ascending.
RECURSIVE order_by_last_seen_asc(_)
order_by_last_seen_asc(rows) ==
    IF rows = {} THEN {<<>>}
    ELSE UNION {{<<r>> \o rest : rest \in order_by_last_seen_asc(rows \ {r})}
                : r \in {x \in rows :
                            \A y \in rows : DateLe(x.last_seen, y.last_seen)}}

\* .order_by('-last_seen'): every result order the database may produce.
\* The head is any row with the greatest last_seen; rows with equal
\* last_seen come in an order the ORDER BY does not fix.
RECURSIVE order_by_last_seen_desc(_)
order_by_last_seen_desc(rows) ==
    IF rows = {} THEN {<<>>}
    ELSE UNION {{<<r>> \o rest : rest \in order_by_last_seen_desc(rows \ {r})}
                : r \in {x \in rows :
                            \A y \in rows : DateLe(y.last_seen, x.last_seen)}}

----------------------------------------------------------------------------
(* django.core.paginator.Paginator as the views use it.  A page parameter   *)
(* is a submitted value: IntParam, TextParam or AbsentParam.               *)

\* Paginator.num_pages with orphans=0 and allow_empty_first_page=True.
num_pages(count, per_page) ==
    IF count = 0 THEN 1 ELSE (count + per_page - 1) \div per_page

\* Paginator.validate_number: the page number, or the exception it raises.
validate_number(number, count, per_page) ==
    IF number.kind # "int" THEN [raised |-> "PageNotAnInteger", number |-> 0]
    ELSE IF number.val < 1 THEN [raised |-> "EmptyPage", number |-> 0]
    ELSE IF number.val > num_pages(count, per_page)
    THEN [raised |-> "EmptyPage", number |-> 0]
    ELSE [raised |-> "no", number |-> number.val]

\* A variant of the page slice that starts one entry late.
page_object_list_late(object_list, per_page, n) ==
    LET bottom == (n - 1) * per_page + 1
        top == IF bottom + per_page >= Len(object_list)
               THEN Len(object_list) ELSE bottom + per_page
    IN SubSeq(object_list, bottom + 1, top)

\* Page.object_list of the valid page number n: object_list[bottom:top].
page_object_list(object_list, per_page, n) ==
    LET bottom == (n - 1) * per_page
        top == IF bottom + per_page >= Len(object_list)
               THEN Len(object_list) ELSE bottom + per_page
    IN SubSeq(object_list, bottom + 1, top)

\* Paginator.get_page: page 1 for a non-number, the last page for a number
\* out of range.
get_page_number(number, count, per_page) ==
    LET v == validate_number(number, count, per_page)
    IN IF v.raised = "PageNotAnInteger" THEN 1
       ELSE IF v.raised = "EmptyPage" THEN num_pages(count, per_page)
       ELSE v.number

----------------------------------------------------------------------------
(* Views that read the Location hierarchy.                                 *)

\* Sighting.objects.filter(location_id__in=ids), ids a bag of location ids.
sightings_in(table, location_ids) ==
    {s \in DOMAIN table : BagIn(table[s].location, location_ids)}

\* The loop `while current: path.insert(0, current); current = current.parent_location`
\* of location_detail; diverges on a parent cycle.
RECURSIVE breadcrumb_walk(_, _, _)
breadcrumb_walk(locs, current, fuel) ==
    IF current = NoLocation THEN [diverges |-> FALSE, path |-> <<>>]
    ELSE IF fuel = 0 THEN [diverges |-> TRUE, path |-> <<>>]
    ELSE LET up == breadcrumb_walk(locs, locs[current].parent_location, fuel - 1)
         IN [diverges |-> up.diverges, path |-> Append(up.path, current)]

\* location_detail.
location_detail(location_id) ==
    /\ UNCHANGED inflight
    /\ UNCHANGED <<locations, next_location_id, sightings, next_sighting_id, catalogue>>
    /\ IF location_id \notin DOMAIN locations
       THEN response' = [view |-> "location_detail", status |-> "404"]
       ELSE LET breadcrumb == breadcrumb_walk(locations, location_id,
                                              Cardinality(DOMAIN locations))
                child_locations == ChildrenOf(locations, location_id)
                per_child == [c \in child_locations |->
                                 get_all_child_locations(locations, c)]
                all_child_locations == get_all_child_locations(locations, location_id)
                all_location_ids == SetToBag({location_id}) (+) all_child_locations.value
                qs == sightings_in(sightings, all_location_ids)
            IN IF breadcrumb.diverges
               THEN response' = [view |-> "location_detail", status |-> "hang"]
               ELSE IF all_child_locations.raised
                       \/ \E c \in child_locations : per_child[c].raised
               THEN response' = [view |-> "location_detail",
                                 status |-> "RecursionError"]
               ELSE response' =
                    [view |-> "location_detail", status |-> "200",
                     location |-> location_id,
                     breadcrumb_path |-> breadcrumb.path,
                     child_sighting_count |-> [c \in child_locations |->
                         Cardinality(sightings_in(sightings,
                             SetToBag({c}) (+) per_child[c].value))],
                     total_child_locations |-> BagCardinality(all_child_locations.value),
                     total_sightings |-> Cardinality(qs),
                     unique_species |-> Cardinality({sightings[s].bird : s \in qs})]

\* location_sightings; location = NoLocation is a request without the
\* ?location= parameter.
location_sightings(location) ==
    /\ UNCHANGED inflight
    /\ UNCHANGED <<locations, next_location_id, sightings, next_sighting_id, catalogue>>
    /\ IF location = NoLocation
       THEN response' = [view |-> "location_sightings", status |-> "redirect"]
       ELSE IF location \notin DOMAIN locations
       THEN response' = [view |-> "location_sightings", status |-> "404"]
       ELSE LET child_locations == get_all_child_locations(locations, location)
                location_ids == SetToBag({location}) (+) child_locations.value
                qs == sightings_in(sightings, location_ids)
            IN IF child_locations.raised
               THEN response' = [view |-> "location_sightings",
                                 status |-> "RecursionError"]
               ELSE response' =
                    [view |-> "location_sightings", status |-> "200",
                     location |-> location,
                     child_locations |-> child_locations.value,
                     sightings |-> qs,
                     total_sightings |-> Cardinality(qs)]

\* Paginator(species_list, 20) in locationlist.
LocationListPerPage == 20

\* One entry of locationlist's species_list, from a row of the annotated
\* queryset over the sightings qs.
locationlist_entry(table, qs, row) ==
    [bird |-> row.bird,
     first_seen_date |-> row.first_seen,
     last_seen_date |-> row.last_seen,
     total_sightings |-> Cardinality({s \in qs : table[s].bird = row.bird}),
     first_sighting |-> first({s \in qs : table[s].bird = row.bird
                                          /\ table[s].date_seen = row.first_seen}),
     recent_sighting |-> first({s \in qs : table[s].bird = row.bird
                                           /\ table[s].date_seen = row.last_seen}),
     is_recent_only |-> row.first_seen = row.last_seen]

\* locationlist; location = NoLocation is a request without a location id.
locationlist(location, page) ==
    /\ UNCHANGED inflight
    /\ UNCHANGED <<locations, next_location_id, sightings, next_sighting_id, catalogue>>
    /\ IF location = NoLocation
       THEN response' = [view |-> "locationlist", status |-> "200",
                         selected_location |-> NoLocation,
                         species_list |-> <<>>, total_species |-> 0]
       ELSE IF location \notin DOMAIN locations
       THEN response' = [view |-> "locationlist", status |-> "404"]
       ELSE LET child_locations == get_all_child_locations(locations, location)
                location_ids == SetToBag({location}) (+) child_locations.value
                qs == sightings_in(sightings, location_ids)
            IN IF child_locations.raised
               THEN response' = [view |-> "locationlist", status |-> "RecursionError"]
               ELSE \E species_sightings \in
                        order_by_last_seen_desc(values_bird_annotate(sightings, qs)) :
                    LET species_list == [i \in 1..Len(species_sightings) |->
                            locationlist_entry(sightings, qs, species_sightings[i])]
                        n == get_page_number(page, Len(species_list), LocationListPerPage)
                    IN response' =
                       [view |-> "locationlist", status |-> "200",
                        selected_location |-> location,
                        child_locations |-> child_locations.value,
                        all_entries |-> species_list,
                        species_list |-> page_object_list(species_list,
                                                          LocationListPerPage, n),
                        total_species |-> Len(species_list)]

----------------------------------------------------------------------------
(* The list views: lifelist, yearlist, monthlist.  A year, month or         *)
(* page_size parameter is [kind, val] like a page parameter; page_size may  *)
(* also be the string 'all'.                                                *)

AllParam == [kind |-> "all", val |-> 0]

\* year = None / month = None in a view's context.
NoPeriod == 0
\* page_size when the parameter is missing or unusable.
DefaultPageSize == 20
\* valid_page_sizes of lifelist, the numbers among them.
ValidPageSizes == {10, 20, 50}

\* A set of integers as a sequence, greatest first (ORDER BY ... DESC).
RECURSIVE SortDesc(_)
SortDesc(S) ==
    IF S = {} THEN <<>>
    ELSE LET m == CHOOSE x \in S : \A y \in S : y <= x
         IN <<m>> \o SortDesc(S \ {m})

\* The sighting ids of table with date_seen__year=year.
filter_year(table, year) ==
    {s \in DOMAIN table : table[s].date_seen.year = year}

\* The sighting ids of table with date_seen__year=year, date_seen__month=month.
filter_year_month(table, year, month) ==
    {s \in DOMAIN table : /\ table[s].date_seen.year = year
                          /\ table[s].date_seen.month = month}

\* A variant that collects the sighting ids, as values_list('id') would.
species_of_by_id(table, qs) == qs

\* values_list('bird', flat=True) of a queryset, as a set.
species_of(table, qs) == {table[s].bird : s \in qs}

\* `if first_sighting:` -- the queryset of the row's first sighting is not
\* empty.
has_first_sighting(table, filtered, row) ==
    \E s \in filtered : /\ table[s].bird = row.bird
                        /\ table[s].date_seen = row.first_seen

\* The rows of the annotated queryset that get an entry, in order.
rows_with_first_sighting(table, filtered, rows) ==
    LET Test(row) == has_first_sighting(table, filtered, row)
    IN SelectSeq(rows, Test)

\* One entry of lifelist_entries, from a row of the annotated queryset over
\* the sightings `filtered`.
list_entry(table, filtered, row) ==
    [bird |-> row.bird,
     first_sighting |-> first({s \in filtered : /\ table[s].bird = row.bird
                                                /\ table[s].date_seen = row.first_seen}),
     first_seen_date |-> row.first_seen,
     last_seen_date |-> row.last_seen,
     total_sightings |-> Cardinality({s \in filtered : table[s].bird = row.bird}),
     is_recent |-> row.first_seen = row.last_seen]

\* A variant that dates "before" by the calendar year alone.
is_lifelist_addition_by_year(table, bird_id, first_seen_date) ==
    ~\E s \in DOMAIN table : /\ table[s].bird = bird_id
                             /\ table[s].date_seen.year < first_seen_date.year

\* not base_sightings.filter(bird_id=bird_id,
\*                           date_seen__lt=first_seen_date).exists()
is_lifelist_addition(table, bird_id, first_seen_date) ==
    ~\E s \in DOMAIN table : /\ table[s].bird = bird_id
                             /\ DateLt(table[s].date_seen, first_seen_date)

\* One entry of monthlist's lifelist_entries.
monthlist_entry(table, filtered, row) ==
    [bird |-> row.bird,
     first_sighting |-> first({s \in filtered : /\ table[s].bird = row.bird
                                                /\ table[s].date_seen = row.first_seen}),
     first_seen_date |-> row.first_seen,
     last_seen_date |-> row.last_seen,
     total_sightings |-> Cardinality({s \in filtered : table[s].bird = row.bird}),
     is_recent |-> row.first_seen = row.last_seen,
     is_lifelist_addition |-> is_lifelist_addition(table, row.bird, row.first_seen)]

\* The result of a view's "Handle pagination" block when page_size is 'all'.
Unpaginated(entries) ==
    [lifelist_entries |-> entries, has_page_obj |-> FALSE, number |-> 0,
     num_pages |-> 0, is_paginated |-> FALSE]

\* The result of that block for the page number n of a Paginator.
PageOf(entries, per_page, n) ==
    [lifelist_entries |-> page_object_list(entries, per_page, n),
     has_page_obj |-> TRUE, number |-> n,
     num_pages |-> num_pages(Len(entries), per_page),
     is_paginated |-> num_pages(Len(entries), per_page) > 1]

\* request.GET.get('page', 1)
page_or_1(page) == IF page.kind = "absent" THEN IntParam(1) ELSE page

\* int(page_size), 20 when it is not a number or is <= 0.
int_page_size(page_size) ==
    IF page_size.kind = "int" /\ page_size.val > 0
    THEN page_size.val ELSE DefaultPageSize

\* "Handle pagination" of yearlist: Paginator.page, page 1 on any exception.
yearlist_paginate(entries, page_size, page) ==
    IF page_size.kind = "all" THEN Unpaginated(entries)
    ELSE LET per_page == int_page_size(page_size)
             v == validate_number(page_or_1(page), Len(entries), per_page)
         IN PageOf(entries, per_page, IF v.raised = "no" THEN v.number ELSE 1)

\* "Handle pagination" of monthlist: Paginator.page, page 1 on any exception.
monthlist_paginate(entries, page_size, page) ==
    IF page_size.kind = "all" THEN Unpaginated(entries)
    ELSE LET per_page == int_page_size(page_size)
             v == validate_number(page_or_1(page), Len(entries), per_page)
         IN PageOf(entries, per_page, IF v.raised = "no" THEN v.number ELSE 1)

\* lifelist's page_size after "if page_size not in valid_page_sizes".
lifelist_page_size(page_size) ==
    IF page_size.kind = "all" THEN page_size
    ELSE IF page_size.kind = "int" /\ page_size.val \in ValidPageSizes THEN page_size
    ELSE IntParam(DefaultPageSize)

\* "Handle pagination" of lifelist: Paginator.get_page.
lifelist_paginate(entries, page_size, page) ==
    LET size == lifelist_page_size(page_size)
    IN IF size.kind = "all" THEN Unpaginated(entries)
       ELSE PageOf(entries, size.val,
                   get_page_number(page_or_1(page), Len(entries), size.val))

\* year_stats = None / month_stats = None.
NoStats == [present |-> FALSE, total_sightings |-> 0, unique_species |-> 0,
            new_species |-> 0]

\* A variant that counts the selected year among the previous ones.
previous_years_species_lte(table, year) ==
    species_of(table, {s \in DOMAIN table : table[s].date_seen.year <= year})

\* base_sightings.filter(date_seen__year__lt=year).values_list('bird')
previous_years_species(table, year) ==
    species_of(table, {s \in DOMAIN table : table[s].date_seen.year < year})

\* A variant that filters with date_seen__lte=month_start.
previous_species_lte(table, month_start) ==
    species_of(table, {s \in DOMAIN table : DateLe(table[s].date_seen, month_start)})

\* base_sightings.filter(date_seen__lt=month_start).values_list('bird')
previous_species(table, month_start) ==
    species_of(table, {s \in DOMAIN table : DateLt(table[s].date_seen, month_start)})

\* A variant whose species_count is Count('bird') without distinct=True.
available_years_with_counts_not_distinct(table) ==
    LET years == SortDesc({table[s].date_seen.year : s \in DOMAIN table})
    IN [i \in 1..Len(years) |->
           [year |-> years[i],
            sighting_count |-> Cardinality(filter_year(table, years[i])),
            species_count |-> Cardinality(filter_year(table, years[i]))]]

\* yearlist's available_years_data.
available_years_with_counts(table) ==
    LET years == SortDesc({table[s].date_seen.year : s \in DOMAIN table})
    IN [i \in 1..Len(years) |->
           [year |-> years[i],
            sighting_count |-> Cardinality(filter_year(table, years[i])),
            species_count |->
                Cardinality(species_of(table, filter_year(table, years[i])))]]

\* monthlist's available_years_data.
available_years_data(table) ==
    LET years == SortDesc({table[s].date_seen.year : s \in DOMAIN table})
        months_of(y) == SortDesc({table[s].date_seen.month : s \in filter_year(table, y)})
    IN [i \in 1..Len(years) |->
           [year |-> years[i],
            months |-> [j \in 1..Len(months_of(years[i])) |->
                LET m == months_of(years[i])[j]
                IN [month |-> m,
                    sighting_count |->
                        Cardinality(filter_year_month(table, years[i], m)),
                    species_count |->
                        Cardinality(species_of(table,
                            filter_year_month(table, years[i], m)))]],
            year_totals |->
                [sighting_count |-> Cardinality(filter_year(table, years[i])),
                 species_count |->
                     Cardinality(species_of(table, filter_year(table, years[i])))]]]

\* "Filter by year if specified" of yearlist: the year the view goes on
\* with and the sightings it lists.
yearlist_filter(table, year) ==
    IF year.kind = "int"
    THEN [year |-> year.val, filtered_sightings |-> filter_year(table, year.val)]
    ELSE [year |-> NoPeriod, filtered_sightings |-> DOMAIN table]

\* A variant that filters by the year and month it was given without
\* looking at the month's range.
monthlist_filter_any_month(table, year, month) ==
    LET both == year.kind # "absent" /\ month.kind # "absent"
        both_int == both /\ year.kind = "int" /\ month.kind = "int"
        year_only == ~both /\ year.kind = "int"
    IN IF both_int
       THEN [year |-> year.val, month |-> month.val,
             filtered_sightings |-> filter_year_month(table, year.val, month.val)]
       ELSE IF year_only
       THEN [year |-> year.val, month |-> NoPeriod,
             filtered_sightings |-> filter_year(table, year.val)]
       ELSE [year |-> NoPeriod, month |-> NoPeriod,
             filtered_sightings |-> DOMAIN table]

\* "Filter by year and month if specified" of monthlist: the year and month
\* the view goes on with and the sightings it lists.
monthlist_filter(table, year, month) ==
    LET both == year.kind # "absent" /\ month.kind # "absent"
        both_valid == /\ both
                      /\ year.kind = "int" /\ month.kind = "int"
                      /\ 1 <= month.val /\ month.val <= 12
        year_only == ~both /\ year.kind = "int"
    IN IF both_valid
       THEN [year |-> year.val, month |-> month.val,
             filtered_sightings |-> filter_year_month(table, year.val, month.val)]
       ELSE IF year_only
       THEN [year |-> year.val, month |-> NoPeriod,
             filtered_sightings |-> filter_year(table, year.val)]
       ELSE [year |-> NoPeriod, month |-> NoPeriod,
             filtered_sightings |-> DOMAIN table]

\* lifelist.
lifelist(page_size, page) ==
    /\ UNCHANGED inflight
    /\ UNCHANGED <<locations, next_location_id, sightings, next_sighting_id, catalogue>>
    /\ \E bird_sightings \in
           order_by_last_seen_desc(values_bird_annotate(sightings, DOMAIN sightings)) :
         LET rows == rows_with_first_sighting(sightings, DOMAIN sightings,
                                              bird_sightings)
             entries == [i \in 1..Len(rows) |->
                            list_entry(sightings, DOMAIN sightings, rows[i])]
             pg == lifelist_paginate(entries, page_size, page)
         IN response' =
            [view |-> "lifelist", status |-> "200",
             request |-> [year |-> AbsentParam, month |-> AbsentParam,
                          page_size |-> page_size, page |-> page],
             all_entries |-> entries,
             lifelist_entries |-> pg.lifelist_entries,
             total_species |-> Len(entries),
             year |-> NoPeriod, month |-> NoPeriod,
             has_page_obj |-> pg.has_page_obj, number |-> pg.number,
             num_pages |-> pg.num_pages, is_paginated |-> pg.is_paginated,
             current_page_size |-> lifelist_page_size(page_size)]

\* yearlist.
yearlist(year, page_size, page) ==
    /\ UNCHANGED inflight
    /\ UNCHANGED <<locations, next_location_id, sightings, next_sighting_id, catalogue>>
    /\ LET year_int == yearlist_filter(sightings, year).year
           filtered_sightings == yearlist_filter(sightings, year).filtered_sightings
       IN \E bird_sightings \in
              order_by_last_seen_desc(values_bird_annotate(sightings,
                                                           filtered_sightings)) :
            LET rows == rows_with_first_sighting(sightings, filtered_sightings,
                                                 bird_sightings)
                entries == [i \in 1..Len(rows) |->
                    list_entry(sightings, filtered_sightings, rows[i])]
                pg == yearlist_paginate(entries, page_size, page)
                year_stats ==
                    IF year_int # NoPeriod
                    THEN [present |-> TRUE,
                          total_sightings |-> Cardinality(filtered_sightings),
                          unique_species |-> Len(bird_sightings),
                          new_species |-> Cardinality(
                              species_of(sightings, filtered_sightings)
                              \ previous_years_species(sightings, year_int))]
                    ELSE NoStats
            IN response' =
               [view |-> "yearlist", status |-> "200",
                request |-> [year |-> year, month |-> AbsentParam,
                             page_size |-> page_size, page |-> page],
                all_entries |-> entries,
                lifelist_entries |-> pg.lifelist_entries,
                total_species |-> Len(bird_sightings),
                year |-> year_int, month |-> NoPeriod,
                stats |-> year_stats,
                available_years_data |-> available_years_with_counts(sightings),
                total_all_species |-> Cardinality(species_of(sightings, DOMAIN sightings)),
                has_page_obj |-> pg.has_page_obj, number |-> pg.number,
                num_pages |-> pg.num_pages, is_paginated |-> pg.is_paginated,
                current_page_size |-> page_size]

\* monthlist.
monthlist(year, month, page_size, page) ==
    /\ UNCHANGED inflight
    /\ UNCHANGED <<locations, next_location_id, sightings, next_sighting_id, catalogue>>
    /\ LET year_int == monthlist_filter(sightings, year, month).year
           month_int == monthlist_filter(sightings, year, month).month
           filtered_sightings ==
               monthlist_filter(sightings, year, month).filtered_sightings
       IN IF year.kind = "absent" /\ month.kind # "absent"
          THEN \* month is still the submitted string: calendar.month_name[month]
               \* raises TypeError
               response' = [view |-> "monthlist", status |-> "TypeError",
                            request |-> [year |-> year, month |-> month,
                                         page_size |-> page_size, page |-> page]]
          ELSE \E bird_sightings \in
                   order_by_last_seen_desc(values_bird_annotate(sightings,
                                                                filtered_sightings)) :
            LET rows == rows_with_first_sighting(sightings, filtered_sightings,
                                                 bird_sightings)
                entries == [i \in 1..Len(rows) |->
                    monthlist_entry(sightings, filtered_sightings, rows[i])]
                pg == monthlist_paginate(entries, page_size, page)
                month_stats ==
                    IF year_int # NoPeriod /\ month_int # NoPeriod
                    THEN [present |-> TRUE,
                          total_sightings |-> Cardinality(filtered_sightings),
                          unique_species |-> Len(bird_sightings),
                          new_species |-> Cardinality(
                              species_of(sightings, filtered_sightings)
                              \ previous_species(sightings,
                                    [year |-> year_int, month |-> month_int,
                                     day |-> 1]))]
                    ELSE NoStats
            IN response' =
               [view |-> "monthlist", status |-> "200",
                request |-> [year |-> year, month |-> month,
                             page_size |-> page_size, page |-> page],
                all_entries |-> entries,
                lifelist_entries |-> pg.lifelist_entries,
                total_species |-> Len(bird_sightings),
                year |-> year_int, month |-> month_int,
                stats |-> month_stats,
                available_years_data |-> available_years_data(sightings),
                total_all_species |-> Cardinality(species_of(sightings, DOMAIN sightings)),
                has_page_obj |-> pg.has_page_obj, number |-> pg.number,
                num_pages |-> pg.num_pages, is_paginated |-> pg.is_paginated,
                current_page_size |-> page_size]

----------------------------------------------------------------------------
(* The location-management specification: a fresh database driven by the   *)
(* views that write Location rows, and add_sighting (sightings block a      *)
(* location's deletion).                                                   *)

\* The dates and birds submitted to add_sighting in the specifications of
\* the Location hierarchy.
HierarchyDates == {[year |-> 2023, month |-> 1, day |-> 1]}

Next ==
    \/ \E n \in Names \cup {BlankName}, p \in LocationIds \cup {NoLocation} :
          location_add("POST", n, p)
    \/ \E p \in LocationIds \cup {NoLocation} : location_add("GET", BlankName, p)
    \/ \E l \in LocationIds, n \in Names \cup {BlankName},
          p \in LocationIds \cup {NoLocation} : location_edit(l, "POST", n, p)
    \/ \E l \in LocationIds : location_edit(l, "GET", BlankName, NoLocation)
    \/ \E l \in LocationIds : location_delete(l)
    \/ \E sel \in SUBSET LocationIds : location_bulk_delete(sel)
    \/ /\ next_sighting_id <= MaxSightingId
       /\ \E l \in LocationIds, d \in HierarchyDates : add_sighting(1, l, NoTrip, d)

Spec == Init /\ [][Next]_vars

----------------------------------------------------------------------------
(* The roll-up specification: a hierarchy built by location_add and        *)
(* location_edit, sightings of several birds, and the views that aggregate *)
(* a location with everything below it.                                    *)

NextRollup ==
    \/ \E p \in LocationIds \cup {NoLocation} : location_add("POST", 1, p)
    \/ \E l \in LocationIds, p \in LocationIds \cup {NoLocation} :
          location_edit(l, "POST", 1, p)
    \/ /\ next_sighting_id <= MaxSightingId
       /\ \E b \in Birds, l \in LocationIds, d \in HierarchyDates :
             add_sighting(b, l, NoTrip, d)
    \/ \E l \in LocationIds : location_detail(l)
    \/ \E l \in LocationIds \cup {NoLocation} : location_sightings(l)
    \/ \E l \in LocationIds \cup {NoLocation} : locationlist(l, AbsentParam)

SpecRollup == Init /\ [][NextRollup]_vars

----------------------------------------------------------------------------
(* The same store with the admin site in reach: admin.site.register        *)
(* (Location) gives a change form that saves any parent_location.          *)

\* The admin change view of Location (ModelAdmin with the default form):
\* saves the submitted name and parent without walking the hierarchy.
admin_location_change(location_id, name, parent) ==
    /\ UNCHANGED inflight
    /\ location_id \in DOMAIN locations
    /\ LocationForm_is_valid(locations, name, parent)
    /\ locations' = [locations EXCEPT ![location_id] =
           [location_name |-> name, parent_location |-> parent]]
    /\ response' = [view |-> "admin_location_change", status |-> "redirect"]
    /\ UNCHANGED <<next_location_id, sightings, next_sighting_id, catalogue>>

NextAdmin ==
    \/ \E n \in Names, p \in LocationIds \cup {NoLocation} :
          location_add("POST", n, p)
    \/ \E l \in LocationIds, n \in Names, p \in LocationIds \cup {NoLocation} :
          admin_location_change(l, n, p)
    \/ \E l \in LocationIds, n \in Names, p \in LocationIds \cup {NoLocation} :
          location_edit(l, "POST", n, p)
    \/ \E l \in LocationIds : location_detail(l)
    \/ \E l \in LocationIds : location_sightings(l)
    \/ \E l \in LocationIds : locationlist(l, AbsentParam)

SpecAdmin == Init /\ [][NextAdmin]_vars

----------------------------------------------------------------------------
(* The catalogue specification: an empty database, every table filled by   *)
(* its add view and emptied by its delete view.                            *)

\* In this specification Location ids are 1..MaxCatalogueLocationId.
MaxCatalogueLocationId == 2

InitCatalogue ==
    /\ locations = <<>>
    /\ next_location_id = 1
    /\ sightings = <<>>
    /\ next_sighting_id = 1
    /\ BirdsLoaded(0)
    /\ response = NoResponse
    /\ inflight = NoRequests

\* The date of every sighting and trip of this specification, and the day
\* before it.
CatalogueDate == [year |-> 2023, month |-> 1, day |-> 2]
CatalogueDayBefore == [year |-> 2023, month |-> 1, day |-> 1]

NextCatalogue ==
    \/ /\ next_family_id <= MaxFamilyId
       /\ \E n \in Names \cup {BlankName} : family_add(n)
    \/ /\ next_bird_id <= MaxBirdId
       /\ \E latin \in {1, BlankName}, f \in {NoFamily} \cup (1..MaxFamilyId) :
             bird_add(1, latin, f)
    \/ /\ next_trip_id <= MaxTripId
       /\ \E start \in {DateField(CatalogueDate), BlankDateField},
             end \in {DateField(CatalogueDate), DateField(CatalogueDayBefore),
                      BadDateField} :
             trip_add(1, start, end)
    \/ /\ next_location_id <= MaxCatalogueLocationId
       /\ \E p \in {NoLocation} \cup (1..MaxCatalogueLocationId) :
             location_add("POST", 1, p)
    \/ /\ next_sighting_id <= MaxSightingId
       /\ \E b \in Birds, l \in 1..MaxCatalogueLocationId,
             t \in {NoTrip} \cup (1..MaxTripId) :
             add_sighting(b, l, t, CatalogueDate)
    \/ \E b \in Birds : bird_delete(b)
    \/ \E f \in 1..MaxFamilyId : family_delete(f)
    \/ \E l \in 1..MaxCatalogueLocationId : location_delete(l)
    \/ \E t \in 1..MaxTripId, method \in {"GET", "POST"} : trip_delete(t, method)
    \/ \E p \in {NoLocation} \cup (1..MaxCatalogueLocationId) :
          location_add("GET", BlankName, p)

SpecCatalogue == InitCatalogue /\ [][NextCatalogue]_vars

----------------------------------------------------------------------------
(* The list specification: one location, sightings added one by one, and   *)
(* the three list views with their period filters.                         *)

\* A database holding one top-level location and no sighting.
InitList ==
    /\ locations = [id \in {1} |->
                       [location_name |-> 1, parent_location |-> NoLocation]]
    /\ next_location_id = 2
    /\ sightings = <<>>
    /\ next_sighting_id = 1
    /\ BirdsLoaded(MaxBirdId)
    /\ response = NoResponse
    /\ inflight = NoRequests

\* The dates submitted to add_sighting in this specification: two years,
\* two months of the later year, two days of one month.
ListDates ==
    {[year |-> 2022, month |-> 1, day |-> 1], [year |-> 2022, month |-> 2, day |-> 2],
     [year |-> 2023, month |-> 1, day |-> 1], [year |-> 2023, month |-> 1, day |-> 2],
     [year |-> 2023, month |-> 2, day |-> 1]}

YearParams == {AbsentParam, TextParam} \cup {IntParam(y) : y \in Years}

\* The (year, month) parameters sent to monthlist: every valid pair, a
\* month out of range, a month or a year that is no number, and each of the
\* two missing.
YearMonthParams ==
    {<<IntParam(y), IntParam(m)>> : y \in Years, m \in Months}
        \cup {<<IntParam(2023), IntParam(13)>>, <<IntParam(2023), IntParam(0)>>,
               <<IntParam(2023), TextParam>>, <<TextParam, IntParam(1)>>,
               <<IntParam(2023), AbsentParam>>, <<AbsentParam, IntParam(1)>>,
               <<AbsentParam, AbsentParam>>}

NextList ==
    \/ /\ next_sighting_id <= MaxListSightingId
       /\ \E b \in Birds, d \in ListDates : add_sighting(b, 1, NoTrip, d)
    \/ lifelist(AbsentParam, AbsentParam)
    \/ \E y \in YearParams : yearlist(y, AbsentParam, AbsentParam)
    \/ \E ym \in YearMonthParams :
          monthlist(ym[1], ym[2], AbsentParam, AbsentParam)
    \/ \E l \in DOMAIN locations : locationlist(l, AbsentParam)

SpecList == InitList /\ [][NextList]_vars

----------------------------------------------------------------------------
(* The paging specification: a database in which k birds have been seen    *)
(* once each, on k different days, and the list views asked for every page *)
(* size and page.                                                          *)

\* k sightings, sighting i of bird i on day i of January 2023.
PageStore(k) ==
    [i \in 1..k |-> [bird |-> i, location |-> 1, trip |-> NoTrip,
                     date_seen |-> [year |-> 2023, month |-> 1, day |-> i],
                     count |-> 1]]

InitPage ==
    /\ locations = [id \in {1} |->
                       [location_name |-> 1, parent_location |-> NoLocation]]
    /\ next_location_id = 2
    /\ \E k \in 0..MaxPageEntries :
          /\ sightings = PageStore(k)
          /\ next_sighting_id = k + 1
          /\ BirdsLoaded(k)
    /\ response = NoResponse
    /\ inflight = NoRequests

PageSizeParams ==
    {AllParam, AbsentParam, TextParam} \cup {IntParam(n) : n \in {0, 3, 10}}
PageParams ==
    {AbsentParam, TextParam} \cup {IntParam(n) : n \in {0, 1, 2, 5}}

NextPage ==
    \/ \E ps \in PageSizeParams, pg \in PageParams : lifelist(ps, pg)
    \/ \E ps \in PageSizeParams, pg \in PageParams : yearlist(AbsentParam, ps, pg)
    \/ \E ps \in PageSizeParams, pg \in PageParams :
          monthlist(AbsentParam, AbsentParam, ps, pg)

SpecPage == InitPage /\ [][NextPage]_vars

----------------------------------------------------------------------------
(* Properties of the Location hierarchy.                                   *)

\* The locations reached from l by following parent_location k times or
\* fewer, at least once.
RECURSIVE ParentsWithin(_, _, _)
ParentsWithin(locs, l, k) ==
    IF k = 0 \/ l \notin DOMAIN locs \/ locs[l].parent_location = NoLocation
    THEN {}
    ELSE {locs[l].parent_location}
         \cup ParentsWithin(locs, locs[l].parent_location, k - 1)

\* Every location on the parent chain of l.
AncestorsOf(locs, l) == ParentsWithin(locs, l, Cardinality(DOMAIN locs))

\* Every location that has l on its parent chain.
DescendantsOf(locs, l) == {x \in DOMAIN locs : l \in AncestorsOf(locs, x)}

\* The sightings recorded at l or at a location below l.
SightingsWithin(l) ==
    {s \in DOMAIN sightings :
        sightings[s].location \in {l} \cup DescendantsOf(locations, l)}

\* C1: whatever location_add, location_edit, location_delete and
\* location_bulk_delete requests have run, no Location is reachable from
\* itself by following parent_location links one or more times.
C1_ParentRelationAcyclic ==
    \A l \in DOMAIN locations : l \notin AncestorsOf(locations, l)

\* C1 witness: a location_edit has just re-parented a location under a
\* location that itself has a parent.
C1_Witness ==
    /\ response.view = "location_edit"
    /\ response.status = "redirect"
    /\ locations[response.location_id].parent_location # NoLocation
    /\ locations[locations[response.location_id].parent_location].parent_location
           # NoLocation

\* C2: a location_edit POST whose proposed parent is the edited location or
\* one of its descendants is answered with the re-rendered form (no
\* exception) and changes no stored Location.
C2_CircularEditRejected ==
    [][response'.view = "location_edit" =>
       \A l \in DOMAIN locations, n \in Names \cup {BlankName} :
         \A p \in {l} \cup DescendantsOf(locations, l) :
            location_edit(l, "POST", n, p) =>
                /\ response'.status \in {"circular", "form_errors"}
                /\ n \in Names => response'.status = "circular"
                /\ locations' = locations]_vars

\* C2 witness: an edit that proposed a descendant two levels down as the
\* parent has been rejected.
C2_Witness ==
    /\ response.view = "location_edit"
    /\ response.status = "circular"
    /\ response.new_parent # response.location_id
    /\ locations[response.new_parent].parent_location # response.location_id
    /\ response.location_id \in AncestorsOf(locations, response.new_parent)

\* C5: the sightings location_detail, location_sightings and locationlist
\* aggregate for a location L are exactly the sightings at L or at a location
\* with L in its parent chain, each counted once.
C5_RollupIsLocationAndDescendants ==
    /\ response.view \in {"location_detail", "location_sightings", "locationlist"}
           => response.status \in {"200", "404", "redirect"}
    /\ (response.view = "location_detail" /\ response.status = "200") =>
           /\ response.total_sightings
                  = Cardinality(SightingsWithin(response.location))
           /\ response.unique_species
                  = Cardinality({sightings[s].bird :
                                    s \in SightingsWithin(response.location)})
           /\ \A c \in DOMAIN response.child_sighting_count :
                  response.child_sighting_count[c]
                      = Cardinality(SightingsWithin(c))
    /\ (response.view = "location_sightings" /\ response.status = "200") =>
           /\ response.sightings = SightingsWithin(response.location)
           /\ response.total_sightings
                  = Cardinality(SightingsWithin(response.location))
    /\ (/\ response.view = "locationlist"
        /\ response.status = "200"
        /\ response.selected_location # NoLocation) =>
           LET within == SightingsWithin(response.selected_location)
               entries == response.all_entries
           IN /\ {entries[i].bird : i \in 1..Len(entries)}
                     = {sightings[s].bird : s \in within}
              /\ \A i, j \in 1..Len(entries) :
                     entries[i].bird = entries[j].bird => i = j
              /\ \A i \in 1..Len(entries) :
                     entries[i].total_sightings
                         = Cardinality({s \in within :
                                           sightings[s].bird = entries[i].bird})

\* C5 witness: location_detail has counted, for a location that has no
\* sighting of its own, a sighting recorded two levels below it.
C5_Witness ==
    /\ response.view = "location_detail"
    /\ response.status = "200"
    /\ response.total_sightings >= 1
    /\ \A s \in DOMAIN sightings : sightings[s].location # response.location
    /\ \E s \in DOMAIN sightings :
           /\ sightings[s].location \in DOMAIN locations
           /\ locations[sightings[s].location].parent_location
                  \notin {NoLocation, response.location}

\* C6: on an acyclic forest get_all_child_locations(L) lists every location
\* whose parent chain includes L exactly once and never lists L.
C6_DescendantsOnceWithoutSelf ==
    (/\ response.view \in {"location_sightings", "locationlist"}
     /\ response.status = "200"
     /\ "child_locations" \in DOMAIN response) =>
        LET l == IF response.view = "locationlist"
                 THEN response.selected_location ELSE response.location
        IN /\ BagToSet(response.child_locations) = DescendantsOf(locations, l)
           /\ \A x \in BagToSet(response.child_locations) :
                  CopiesIn(x, response.child_locations) = 1
           /\ ~BagIn(l, response.child_locations)

\* C6 witness: get_all_child_locations has returned a child and a
\* grandchild of the location it was called on.
C6_Witness ==
    /\ response.view = "location_sightings"
    /\ response.status = "200"
    /\ \E c, g \in BagToSet(response.child_locations) :
           /\ locations[c].parent_location = response.location
           /\ locations[g].parent_location = c

\* C7: get_all_child_locations(L) returns a result for every stored
\* parent_location relation, one with a cycle made through the admin site
\* included.
C7_DescendantsAlwaysReturn ==
    response.view \in {"location_detail", "location_sightings", "locationlist"}
        => response.status # "RecursionError"

----------------------------------------------------------------------------
(* Properties of the list views.                                           *)

\* The last request was a list view and it rendered.
ListResponse ==
    response.view \in {"lifelist", "yearlist", "monthlist"} /\ response.status = "200"

\* The sightings that match the time filter the response reports.
MatchingSightings ==
    {s \in DOMAIN sightings :
        /\ response.year # NoPeriod => sightings[s].date_seen.year = response.year
        /\ response.month # NoPeriod => sightings[s].date_seen.month = response.month}

\* C3: in lifelist, yearlist and monthlist every entry's first_seen_date is
\* the least date_seen, its last_seen_date the greatest date_seen and its
\* total_sightings the number of sightings, of the entry's bird among the
\* sightings that match the view's time filter.
C3_EntryIsMinMaxCount ==
    ListResponse =>
        \A i \in 1..Len(response.all_entries) :
            LET e == response.all_entries[i]
                mine == {s \in MatchingSightings : sightings[s].bird = e.bird}
                dates == {sightings[s].date_seen : s \in mine}
            IN /\ e.first_seen_date \in dates
               /\ \A d \in dates : DateLe(e.first_seen_date, d)
               /\ e.last_seen_date \in dates
               /\ \A d \in dates : DateLe(d, e.last_seen_date)
               /\ e.total_sightings = Cardinality(mine)

\* C3 witness: yearlist, filtered to a year, lists a bird seen twice in that
\* year on different dates and once more in another year.
C3_Witness ==
    /\ response.view = "yearlist"
    /\ response.year # NoPeriod
    /\ \E i \in 1..Len(response.all_entries) :
           LET e == response.all_entries[i]
           IN /\ e.total_sightings = 2
              /\ e.first_seen_date # e.last_seen_date
              /\ \E s \in DOMAIN sightings :
                     /\ sightings[s].bird = e.bird
                     /\ sightings[s].date_seen.year # response.year

\* The birds with a sighting in year y.
BirdsSeenInYear(y) ==
    {sightings[s].bird : s \in {t \in DOMAIN sightings :
                                   sightings[t].date_seen.year = y}}

\* The birds with a sighting in month m of year y.
BirdsSeenInMonth(y, m) ==
    {sightings[s].bird : s \in {t \in DOMAIN sightings :
                                   /\ sightings[t].date_seen.year = y
                                   /\ sightings[t].date_seen.month = m}}

\* C4: for a valid year Y yearlist's new_species is the number of birds with
\* a sighting in Y and none in a year before Y; for a valid (Y, M)
\* monthlist's new_species is the number of birds with a sighting in that
\* month and none dated before the first day of that month.
C4_NewSpeciesIsSetDifference ==
    /\ (response.view = "yearlist" /\ response.status = "200"
        /\ response.year # NoPeriod) =>
           /\ response.stats.present
           /\ response.stats.new_species =
                 Cardinality({b \in BirdsSeenInYear(response.year) :
                     ~\E s \in DOMAIN sightings :
                         /\ sightings[s].bird = b
                         /\ sightings[s].date_seen.year < response.year})
    /\ (response.view = "monthlist" /\ response.status = "200"
        /\ response.year # NoPeriod /\ response.month # NoPeriod) =>
           /\ response.stats.present
           /\ response.stats.new_species =
                 Cardinality({b \in BirdsSeenInMonth(response.year, response.month) :
                     ~\E s \in DOMAIN sightings :
                         /\ sightings[s].bird = b
                         /\ \/ sightings[s].date_seen.year < response.year
                            \/ /\ sightings[s].date_seen.year = response.year
                               /\ sightings[s].date_seen.month < response.month})

\* C4 witness: yearlist for a year in which two birds were seen, one of them
\* already seen the year before, reports one new species.
C4_Witness ==
    /\ response.view = "yearlist"
    /\ response.status = "200"
    /\ response.stats.present
    /\ response.stats.unique_species = 2
    /\ response.stats.new_species = 1

\* The entries the view of the response delivers for page k of its list.
DeliveredPage(k) ==
    IF response.view = "lifelist"
    THEN lifelist_paginate(response.all_entries, response.current_page_size,
                           IntParam(k)).lifelist_entries
    ELSE IF response.view = "yearlist"
    THEN yearlist_paginate(response.all_entries, response.current_page_size,
                           IntParam(k)).lifelist_entries
    ELSE monthlist_paginate(response.all_entries, response.current_page_size,
                            IntParam(k)).lifelist_entries

\* The pages k..last, one after the other.
RECURSIVE ConcatPages(_, _)
ConcatPages(k, last) ==
    IF k > last THEN <<>> ELSE DeliveredPage(k) \o ConcatPages(k + 1, last)

\* C8: for every entry list and every page size >= 1 that lifelist, yearlist
\* or monthlist accepts, the entries delivered for pages 1..totalPages, put
\* one after the other, are the full ordered entry list.
C8_PagesConcatenateToList ==
    (ListResponse /\ response.has_page_obj) =>
        /\ ConcatPages(1, response.num_pages) = response.all_entries
        /\ response.lifelist_entries = DeliveredPage(response.number)

\* C8 witness: lifelist has delivered the last page of a list that takes two
\* pages, the last one shorter than the page size.
C8_Witness ==
    /\ response.view = "lifelist"
    /\ response.has_page_obj
    /\ response.num_pages = 2
    /\ response.number = 2
    /\ Len(response.lifelist_entries) = 1
    /\ Len(response.all_entries) = 11

\* C9 as claimed: the entries are sorted by last_seen_date descending, and
\* entries with equal last_seen_date are in ascending bird id order.
C9_SortedWithBirdIdTieBreak ==
    ListResponse =>
        \A i, j \in 1..Len(response.all_entries) :
            i < j =>
                LET a == response.all_entries[i]
                    b == response.all_entries[j]
                IN \/ DateLt(b.last_seen_date, a.last_seen_date)
                   \/ a.last_seen_date = b.last_seen_date /\ a.bird < b.bird

\* C9 as amended: the entries are sorted by last_seen_date descending; the
\* order of entries with equal last_seen_date is whatever the database
\* returns.
C9_SortedByLastSeenDescending ==
    ListResponse =>
        \A i, j \in 1..Len(response.all_entries) :
            i < j => ~DateLt(response.all_entries[i].last_seen_date,
                             response.all_entries[j].last_seen_date)

\* C9 witness: a list view has listed two birds last seen on different dates.
C9_Witness ==
    /\ ListResponse
    /\ Len(response.all_entries) = 2
    /\ response.all_entries[1].last_seen_date # response.all_entries[2].last_seen_date
    /\ response.all_entries[1].bird > response.all_entries[2].bird

\* C10: in monthlist with a valid year and a month in 1..12, an entry's
\* is_lifelist_addition is true exactly when the earliest of all stored
\* sightings of its bird is dated inside the selected month.
C10_LifelistAdditionIffEarliestInMonth ==
    (response.view = "monthlist" /\ response.status = "200"
     /\ response.year # NoPeriod /\ response.month # NoPeriod) =>
        \A i \in 1..Len(response.all_entries) :
            LET e == response.all_entries[i]
                all_dates == {sightings[s].date_seen :
                                 s \in {t \in DOMAIN sightings :
                                           sightings[t].bird = e.bird}}
            IN e.is_lifelist_addition <=>
                   \E d \in all_dates :
                       /\ \A o \in all_dates : DateLe(d, o)
                       /\ d.year = response.year
                       /\ d.month = response.month

\* C10 witness: monthlist for a month lists one bird first seen in that
\* month and one bird already seen in an earlier month of the same year.
C10_Witness ==
    /\ response.view = "monthlist"
    /\ response.status = "200"
    /\ response.year # NoPeriod /\ response.month # NoPeriod
    /\ \E i, j \in 1..Len(response.all_entries) :
           /\ response.all_entries[i].is_lifelist_addition
           /\ ~response.all_entries[j].is_lifelist_addition
           /\ \E s \in DOMAIN sightings :
                  /\ sightings[s].bird = response.all_entries[j].bird
                  /\ sightings[s].date_seen.year = response.year
                  /\ sightings[s].date_seen.month < response.month

----------------------------------------------------------------------------
(* Claims about the delete views.                                          *)

\* Every Bird, Family, Location, Trip and Sighting record.
Records == <<birds, families, locations, trips, sightings>>

\* C11: bird_delete on a bird with at least one sighting, location_delete
\* on a location with at least one sighting or at least one child location,
\* and family_delete on a family with at least one bird each return a
\* failure response and leave every Bird, Family, Location, Trip and
\* Sighting record unchanged.
C11_ReferencedDeleteRefused ==
    [][/\ (/\ response'.view = "bird_delete"
           /\ response'.bird_id \in DOMAIN birds
           /\ \E s \in DOMAIN sightings : sightings[s].bird = response'.bird_id)
          => (/\ response'.status = "json"
              /\ ~response'.success
              /\ UNCHANGED Records)
       /\ (/\ response'.view = "location_delete"
           /\ response'.location_id \in DOMAIN locations
           /\ \/ \E s \in DOMAIN sightings :
                    sightings[s].location = response'.location_id
              \/ \E l \in DOMAIN locations :
                    locations[l].parent_location = response'.location_id)
          => (/\ response'.status = "json"
              /\ ~response'.success
              /\ UNCHANGED Records)
       /\ (/\ response'.view = "family_delete"
           /\ response'.family_id \in DOMAIN families
           /\ \E b \in DOMAIN birds : birds[b].family = response'.family_id)
          => (/\ response'.status = "json"
              /\ ~response'.success
              /\ UNCHANGED Records)]_vars

\* C11 witness: bird_delete has refused to delete a bird that has a
\* sighting, in a store that also holds a family with a bird and a location
\* with a child.
C11_Witness ==
    /\ response.view = "bird_delete"
    /\ response.status = "json"
    /\ ~response.success
    /\ \E s \in DOMAIN sightings : sightings[s].bird = response.bird_id
    /\ \E b \in DOMAIN birds : birds[b].family \in DOMAIN families
    /\ \E l \in DOMAIN locations : locations[l].parent_location \in DOMAIN locations

\* C12: a trip_delete POST run as one transaction removes the Trip and no
\* Sighting: the Sighting ids are the same before and after, every sighting
\* that referenced the trip has trip = NoTrip afterwards, and every other
\* field of every sighting is as before.
C12_TripDeleteKeepsSightings ==
    [][(response'.view = "trip_delete" /\ response'.status = "redirect")
          => LET trip_id == response'.trip_id
             IN /\ trip_id \in DOMAIN trips
                /\ DOMAIN trips' = DOMAIN trips \ {trip_id}
                /\ \A t \in DOMAIN trips' : trips'[t] = trips[t]
                /\ DOMAIN sightings' = DOMAIN sightings
                /\ \A s \in DOMAIN sightings :
                      /\ sightings'[s].bird = sightings[s].bird
                      /\ sightings'[s].location = sightings[s].location
                      /\ sightings'[s].date_seen = sightings[s].date_seen
                      /\ sightings'[s].trip =
                            IF sightings[s].trip = trip_id THEN NoTrip
                            ELSE sightings[s].trip
                /\ UNCHANGED <<birds, families, locations>>]_vars

\* C12 witness: trip_delete has deleted a trip that two sightings referred
\* to; both sightings are still there, without a trip.
C12_Witness ==
    /\ response.view = "trip_delete"
    /\ response.status = "redirect"
    /\ response.sighting_count = 2
    /\ response.trip_id \notin DOMAIN trips
    /\ Cardinality(DOMAIN sightings) = 2
    /\ \A s \in DOMAIN sightings : sightings[s].trip = NoTrip

----------------------------------------------------------------------------
(* Claims about the page parameter of the list views.                      *)

\* C13: in lifelist, yearlist and monthlist alike, a numeric page number
\* greater than the number of pages delivers the last page of the entry
\* list.
C13_TooHighPageDeliversLastPage ==
    (/\ ListResponse
     /\ response.has_page_obj
     /\ response.request.page.kind = "int"
     /\ response.request.page.val > response.num_pages)
        => /\ response.number = response.num_pages
           /\ response.lifelist_entries = DeliveredPage(response.num_pages)

\* C14: in lifelist, yearlist and monthlist alike, a page parameter that is
\* no number, or is a number <= 0, delivers page 1 of the entry list.
C14_BadPageDeliversFirstPage ==
    (/\ ListResponse
     /\ response.has_page_obj
     /\ \/ response.request.page.kind = "text"
        \/ /\ response.request.page.kind = "int"
           /\ response.request.page.val <= 0)
        => /\ response.number = 1
           /\ response.lifelist_entries = DeliveredPage(1)

----------------------------------------------------------------------------
(* Claims about the period filter of the list views.                       *)

\* The request of the response named a year, or a year and a month, that
\* the view cannot use: yearlist a year that is no number, monthlist a year
\* and a month of which one is no number or the month is outside 1..12.
UnusablePeriodRequest ==
    \/ /\ response.view = "yearlist"
       /\ response.request.year.kind = "text"
    \/ /\ response.view = "monthlist"
       /\ response.request.year.kind # "absent"
       /\ response.request.month.kind # "absent"
       /\ \/ response.request.year.kind = "text"
          \/ response.request.month.kind = "text"
          \/ /\ response.request.month.kind = "int"
             /\ ~(response.request.month.val \in 1..12)

\* C15: yearlist with a year that is no number, and monthlist with year and
\* month both given where one is no number or month is outside 1..12,
\* complete without error, report no year, no month and no period
\* statistics, and list what the request without year and month lists: one
\* entry for each bird sighted at all, with first date, last date and count
\* taken over all its sightings.
C15_UnusablePeriodFallsBackToUnfiltered ==
    UnusablePeriodRequest =>
        /\ response.status = "200"
        /\ response.year = NoPeriod
        /\ response.month = NoPeriod
        /\ ~response.stats.present
        /\ Len(response.all_entries)
              = Cardinality({sightings[s].bird : s \in DOMAIN sightings})
        /\ \A s \in DOMAIN sightings :
              \E i \in 1..Len(response.all_entries) :
                  response.all_entries[i].bird = sightings[s].bird
        /\ \A i \in 1..Len(response.all_entries) :
              LET e == response.all_entries[i]
                  mine == {s \in DOMAIN sightings : sightings[s].bird = e.bird}
              IN /\ e.total_sightings = Cardinality(mine)
                 /\ \E s \in mine : sightings[s].date_seen = e.first_seen_date
                 /\ \E s \in mine : sightings[s].date_seen = e.last_seen_date
                 /\ \A s \in mine :
                       /\ DateLe(e.first_seen_date, sightings[s].date_seen)
                       /\ DateLe(sightings[s].date_seen, e.last_seen_date)

\* C15 witness: monthlist, asked for month 13 of a year, has listed birds
\* sighted in that year and in another year.
C15_Witness ==
    /\ response.view = "monthlist"
    /\ response.status = "200"
    /\ response.request.year.kind = "int"
    /\ response.request.month = IntParam(13)
    /\ Len(response.all_entries) = 2
    /\ \E s, t \in DOMAIN sightings :
           /\ sightings[s].date_seen.year = response.request.year.val
           /\ sightings[t].date_seen.year # response.request.year.val

----------------------------------------------------------------------------
(* Claims about lookups by identity.                                       *)

\* C16: every view that looks up a Location, Bird, Trip or Family by an
\* identity supplied in the request responds with a not-found outcome when
\* no such record exists; none goes on as if no identity had been given.
C16_MissingRecordIsNotFound ==
    [][/\ (/\ response'.view = "location_add"
           /\ response'.status = "form"
           /\ response'.parent # NoLocation
           /\ response'.parent \notin DOMAIN locations)
          => FALSE
       /\ (/\ response'.view = "location_delete"
           /\ response'.location_id \notin DOMAIN locations)
          => response'.status = "404"
       /\ (/\ response'.view = "bird_delete"
           /\ response'.bird_id \notin DOMAIN birds)
          => response'.status = "404"
       /\ (/\ response'.view = "family_delete"
           /\ response'.family_id \notin DOMAIN families)
          => response'.status = "404"
       /\ (/\ response'.view = "trip_delete"
           /\ response'.trip_id \notin DOMAIN trips)
          => response'.status = "404"]_vars

----------------------------------------------------------------------------
(* Claims about the entries of the list views.                             *)

\* The sightings that match the time filter the view derives from the
\* request of the response.
RequestedSightings ==
    IF response.view = "yearlist"
    THEN yearlist_filter(sightings, response.request.year).filtered_sightings
    ELSE IF response.view = "monthlist"
    THEN monthlist_filter(sightings, response.request.year,
                          response.request.month).filtered_sightings
    ELSE DOMAIN sightings

\* C17: the birds in the entries of lifelist, yearlist or monthlist are
\* exactly the birds with at least one sighting matching the view's time
\* filter, each bird in one entry; with no matching sighting the entry list
\* is empty and the request succeeds.
C17_EntriesAreTheBirdsSighted ==
    /\ ListResponse =>
          /\ {response.all_entries[i].bird : i \in 1..Len(response.all_entries)}
                = {sightings[s].bird : s \in RequestedSightings}
          /\ Len(response.all_entries)
                = Cardinality({sightings[s].bird : s \in RequestedSightings})
    /\ (/\ response.view \in {"lifelist", "yearlist", "monthlist"}
        /\ RequestedSightings = {})
          => /\ response.status = "200"
             /\ response.all_entries = <<>>

\* A list response, or a locationlist response for a location.
EntriesResponse ==
    \/ ListResponse
    \/ /\ response.view = "locationlist"
       /\ response.status = "200"
       /\ response.selected_location # NoLocation

\* C18: every entry of lifelist, yearlist, monthlist and locationlist has
\* first_seen_date <= last_seen_date and total_sightings >= 1.
C18_FirstNotAfterLastAndCounted ==
    EntriesResponse =>
        \A i \in 1..Len(response.all_entries) :
            /\ DateLe(response.all_entries[i].first_seen_date,
                      response.all_entries[i].last_seen_date)
            /\ response.all_entries[i].total_sightings >= 1

\* C18 witness: locationlist has listed one bird seen on two different
\* dates and one bird seen once.
C18_Witness ==
    /\ response.view = "locationlist"
    /\ response.status = "200"
    /\ response.selected_location # NoLocation
    /\ \E i, j \in 1..Len(response.all_entries) :
           /\ DateLt(response.all_entries[i].first_seen_date,
                     response.all_entries[i].last_seen_date)
           /\ response.all_entries[i].total_sightings = 2
           /\ response.all_entries[j].first_seen_date
                  = response.all_entries[j].last_seen_date
           /\ response.all_entries[j].total_sightings = 1

\* C19: whenever yearlist returns year_stats or monthlist returns
\* month_stats, 0 <= new_species <= unique_species, and unique_species is
\* the number of distinct birds sighted in the selected window.
C19_NewSpeciesWithinUniqueSpecies ==
    (/\ response.view \in {"yearlist", "monthlist"}
     /\ response.status = "200"
     /\ response.stats.present)
        => /\ 0 <= response.stats.new_species
           /\ response.stats.new_species <= response.stats.unique_species
           /\ response.stats.unique_species
                 = Cardinality({sightings[s].bird : s \in MatchingSightings})

\* C19 witness: monthlist reports a month in which every bird sighted had
\* been sighted before: no new species among one or more species.
C19_Witness ==
    /\ response.view = "monthlist"
    /\ response.status = "200"
    /\ response.stats.present
    /\ response.stats.new_species = 0
    /\ response.stats.unique_species >= 1

\* C20: yearlist's available_years_data has exactly one item for each
\* calendar year with at least one sighting and none for another year, in
\* descending order of year, each with the number of sightings of that year
\* as sighting_count and the number of distinct birds sighted in that year
\* as species_count.
C20_AvailableYearsAreTheYearsSighted ==
    (response.view = "yearlist" /\ response.status = "200") =>
        LET data == response.available_years_data
        IN /\ {data[i].year : i \in 1..Len(data)}
                 = {sightings[s].date_seen.year : s \in DOMAIN sightings}
           /\ \A i, j \in 1..Len(data) : i < j => data[i].year > data[j].year
           /\ \A i \in 1..Len(data) :
                 /\ data[i].sighting_count
                       = Cardinality({s \in DOMAIN sightings :
                             sightings[s].date_seen.year = data[i].year})
                 /\ data[i].species_count
                       = Cardinality(BirdsSeenInYear(data[i].year))

\* C20 witness: yearlist has listed two years, the later one first, in one
\* of which a bird was sighted twice.
C20_Witness ==
    /\ response.view = "yearlist"
    /\ response.status = "200"
    /\ Len(response.available_years_data) = 2
    /\ \E i \in 1..2 :
           /\ response.available_years_data[i].sighting_count = 2
           /\ response.available_years_data[i].species_count = 1

----------------------------------------------------------------------------
(* The path methods of the Location model, and search_locations, the view  *)
(* that serves get_full_path_string.                                       *)

\* The text " > " that get_full_path_string puts between two names; a
\* location_name is one token of text, and a text is a sequence of tokens.
Separator == 0 - 1

\* The loop of get_ancestors with `ancestors.append(parent)` in place of
\* `ancestors.insert(0, parent)`.
RECURSIVE ancestors_walk_appending(_, _, _, _)
ancestors_walk_appending(locs, parent, ancestors, fuel) ==
    IF parent = NoLocation THEN [diverges |-> FALSE, value |-> ancestors]
    ELSE IF fuel = 0 THEN [diverges |-> TRUE, value |-> ancestors]
    ELSE ancestors_walk_appending(locs, locs[parent].parent_location,
                                  Append(ancestors, parent), fuel - 1)

\* The loop of get_ancestors: `while parent: ancestors.insert(0, parent);
\* parent = parent.parent_location`. It does not end on a parent cycle.
RECURSIVE ancestors_walk(_, _, _, _)
ancestors_walk(locs, parent, ancestors, fuel) ==
    IF parent = NoLocation THEN [diverges |-> FALSE, value |-> ancestors]
    ELSE IF fuel = 0 THEN [diverges |-> TRUE, value |-> ancestors]
    ELSE ancestors_walk(locs, locs[parent].parent_location,
                        <<parent>> \o ancestors, fuel - 1)

\* Location.get_ancestors.
get_ancestors(locs, location) ==
    ancestors_walk(locs, locs[location].parent_location, <<>>,
                   Cardinality(DOMAIN locs))

\* The loop of get_full_path: `while parent: path.insert(0,
\* parent.location_name); parent = parent.parent_location`.
RECURSIVE full_path_walk(_, _, _, _)
full_path_walk(locs, parent, path, fuel) ==
    IF parent = NoLocation THEN [diverges |-> FALSE, value |-> path]
    ELSE IF fuel = 0 THEN [diverges |-> TRUE, value |-> path]
    ELSE full_path_walk(locs, locs[parent].parent_location,
                        <<locs[parent].location_name>> \o path, fuel - 1)

\* Location.get_full_path.
get_full_path(locs, location) ==
    full_path_walk(locs, locs[location].parent_location,
                   <<locs[location].location_name>>, Cardinality(DOMAIN locs))

\* str.join: the texts of `parts` with `sep` between each two of them.
RECURSIVE join(_, _)
join(sep, parts) ==
    IF parts = <<>> THEN <<>>
    ELSE IF Len(parts) = 1 THEN <<parts[1]>>
    ELSE <<parts[1], sep>> \o join(sep, Tail(parts))

\* Location.get_full_path_string.
get_full_path_string(locs, location) ==
    LET path == get_full_path(locs, location)
    IN [diverges |-> path.diverges, value |-> join(Separator, path.value)]

\* search_locations. A query shorter than two characters is BlankName;
\* a longer query is a name token and icontains matches the locations
\* that carry it. The response maps each match to its JSON object.
search_locations(query) ==
    /\ UNCHANGED inflight
    /\ UNCHANGED <<locations, next_location_id, sightings, next_sighting_id, catalogue>>
    /\ IF query = BlankName
       THEN response' = [view |-> "search_locations", status |-> "200",
                         query |-> query, locations |-> <<>>]
       ELSE LET found == {l \in DOMAIN locations :
                             locations[l].location_name = query}
            IN IF \E l \in found : get_full_path_string(locations, l).diverges
               THEN response' = [view |-> "search_locations", status |-> "hang",
                                 query |-> query]
               ELSE response' =
                    [view |-> "search_locations", status |-> "200",
                     query |-> query,
                     locations |-> [l \in found |->
                         [id |-> l,
                          location_name |-> locations[l].location_name,
                          full_path |-> get_full_path_string(locations, l).value,
                          display_name |-> get_full_path_string(locations, l).value]]]

\* The path specification: a hierarchy of named locations built by
\* location_add and location_edit, and searches over it.
NextPath ==
    \/ \E n \in Names, p \in LocationIds \cup {NoLocation} :
          location_add("POST", n, p)
    \/ \E l \in LocationIds, n \in Names, p \in LocationIds \cup {NoLocation} :
          location_edit(l, "POST", n, p)
    \/ \E q \in Names \cup {BlankName} : search_locations(q)

SpecPath == Init /\ [][NextPath]_vars

\* The parent chain of l from the root down to its immediate parent, stated
\* by what it is: the one sequence without repetition over the ancestors of
\* l that starts at a root, steps from parent to child, and ends at l's parent.
IsRootDownChain(locs, l, chain) ==
    /\ Len(chain) = Cardinality(AncestorsOf(locs, l))
    /\ Range(chain) = AncestorsOf(locs, l)
    /\ (locs[l].parent_location = NoLocation) <=> (chain = <<>>)
    /\ chain # <<>> =>
          /\ locs[chain[1]].parent_location = NoLocation
          /\ chain[Len(chain)] = locs[l].parent_location
          /\ \A i \in 1..(Len(chain) - 1) :
                locs[chain[i + 1]].parent_location = chain[i]

\* C21: on an acyclic forest, get_ancestors of every location is its parent
\* chain from the root down to the immediate parent (empty without a
\* parent), get_full_path is the names of that chain in order followed by
\* the location's own name, and get_full_path_string is those names with
\* " > " between each two.
C21_PathIsRootDownChain ==
    C1_ParentRelationAcyclic =>
    \A l \in DOMAIN locations :
        LET ancestors == get_ancestors(locations, l)
            path == get_full_path(locations, l)
            text == get_full_path_string(locations, l)
            n == Len(ancestors.value)
        IN /\ ~ancestors.diverges /\ ~path.diverges /\ ~text.diverges
           /\ IsRootDownChain(locations, l, ancestors.value)
           /\ Len(path.value) = n + 1
           /\ \A i \in 1..n :
                 path.value[i] = locations[ancestors.value[i]].location_name
           /\ path.value[n + 1] = locations[l].location_name
           /\ Len(text.value) = 2 * n + 1
           /\ \A i \in 1..(n + 1) : text.value[2 * i - 1] = path.value[i]
           /\ \A i \in 1..n : text.value[2 * i] = Separator

\* C21 witness: a search has served the path of a location two levels below
\* a root whose name differs from its parent's name.
C21_Witness ==
    /\ response.view = "search_locations"
    /\ response.status = "200"
    /\ \E l \in DOMAIN response.locations :
          /\ Len(response.locations[l].full_path) = 5
          /\ response.locations[l].full_path[1] # response.locations[l].full_path[3]
          /\ response.locations[l].full_path = get_full_path_string(locations, l).value

----------------------------------------------------------------------------
(* trip_edit, and the trip specification: trips added and edited.          *)

\* trip_edit without the comparison `end_date_obj < start_date_obj`.
trip_edit_unordered(trip_id, method, trip_name, start_date, end_date) ==
    /\ UNCHANGED inflight
    /\ UNCHANGED <<locations, next_location_id, sightings, next_sighting_id,
                   birds, next_bird_id, families, next_family_id, next_trip_id>>
    /\ IF trip_id \in DOMAIN trips /\ method = "POST" /\ trip_name # BlankName
          /\ start_date.kind = "date" /\ end_date.kind = "date"
       THEN /\ trips' = [trips EXCEPT ![trip_id] =
                   [trip_name |-> trip_name, start_date |-> start_date.date,
                    end_date |-> end_date.date]]
            /\ response' = [view |-> "trip_edit", status |-> "redirect",
                            trip_id |-> trip_id]
       ELSE /\ UNCHANGED trips
            /\ response' = [view |-> "trip_edit", status |-> "form",
                            message |-> "none"]

\* trip_edit, POST and GET.
trip_edit(trip_id, method, trip_name, start_date, end_date) ==
    /\ UNCHANGED inflight
    /\ UNCHANGED <<locations, next_location_id, sightings, next_sighting_id,
                   birds, next_bird_id, families, next_family_id, next_trip_id>>
    /\ IF trip_id \notin DOMAIN trips
       THEN /\ UNCHANGED trips
            /\ response' = [view |-> "trip_edit", status |-> "404"]
       ELSE IF method # "POST"
       THEN /\ UNCHANGED trips
            /\ response' = [view |-> "trip_edit", status |-> "form",
                            message |-> "none"]
       ELSE IF \/ trip_name = BlankName
               \/ start_date.kind = "blank"
               \/ end_date.kind = "blank"
       THEN /\ UNCHANGED trips
            /\ response' = [view |-> "trip_edit", status |-> "form",
                            message |-> "required"]
       ELSE IF start_date.kind # "date" \/ end_date.kind # "date"
       THEN /\ UNCHANGED trips
            /\ response' = [view |-> "trip_edit", status |-> "form",
                            message |-> "invalid_date"]
       ELSE IF DateLt(end_date.date, start_date.date)
       THEN /\ UNCHANGED trips
            /\ response' = [view |-> "trip_edit", status |-> "form",
                            message |-> "end_before_start"]
       ELSE /\ trips' = [trips EXCEPT ![trip_id] =
                   [trip_name |-> trip_name, start_date |-> start_date.date,
                    end_date |-> end_date.date]]
            /\ response' = [view |-> "trip_edit", status |-> "redirect",
                            trip_id |-> trip_id]

\* In the trip specification Trip ids are 1..MaxEditTripId.
MaxEditTripId == 2

\* The dates and the date fields submitted in the trip specification.
TripDates == {[year |-> 2022, month |-> 2, day |-> 2],
              [year |-> 2023, month |-> 1, day |-> 1],
              [year |-> 2023, month |-> 1, day |-> 2]}
TripDateFields == {DateField(d) : d \in TripDates} \cup {BadDateField, BlankDateField}

NextTrip ==
    \/ /\ next_trip_id <= MaxEditTripId
       /\ \E n \in {1, BlankName}, start \in TripDateFields, end \in TripDateFields :
             trip_add(n, start, end)
    \/ \E t \in 1..MaxEditTripId, n \in {1, BlankName},
          start \in TripDateFields, end \in TripDateFields :
          trip_edit(t, "POST", n, start, end)
    \/ \E t \in 1..MaxEditTripId :
          trip_edit(t, "GET", BlankName, BlankDateField, BlankDateField)

SpecTrip == InitCatalogue /\ [][NextTrip]_vars

\* Every stored trip ends on or after the day it starts.
TripsOrdered(table) ==
    \A t \in DOMAIN table : DateLe(table[t].start_date, table[t].end_date)

\* C22: whatever trip_add and trip_edit requests have run, every stored
\* Trip has end_date >= start_date, and a request whose end_date is before
\* its start_date is answered with the form and leaves the trips as they were.
C22_TripEndsNotBeforeStart ==
    /\ []TripsOrdered(trips)
    /\ [][\A t \in 1..MaxEditTripId, n \in {1, BlankName},
             start \in TripDates, end \in TripDates :
             (/\ DateLt(end, start)
              /\ \/ trip_add(n, DateField(start), DateField(end))
                 \/ trip_edit(t, "POST", n, DateField(start), DateField(end)))
             => /\ trips' = trips
                /\ next_trip_id' = next_trip_id
                /\ response'.status # "redirect"]_vars

\* C22 witness: with two trips stored, a trip_edit has just saved one of
\* them with its end after its start.
C22_Witness ==
    /\ response.view = "trip_edit"
    /\ response.status = "redirect"
    /\ DateLt(trips[response.trip_id].start_date, trips[response.trip_id].end_date)
    /\ \E t \in DOMAIN trips : t # response.trip_id

----------------------------------------------------------------------------
(* The count specification: add_sighting with the count field as any       *)
(* client may submit it.                                                   *)

\* The count fields submitted: negative, zero, positive, no number, missing.
CountFields == {IntParam(0 - 1), IntParam(0), IntParam(1), IntParam(2),
                TextParam, AbsentParam}

NextCount ==
    /\ next_sighting_id <= MaxListSightingId
    /\ \E b \in Birds, d \in HierarchyDates, c \in CountFields :
          add_sighting_counted(b, 1, NoTrip, d, c)

SpecCount == InitList /\ [][NextCount]_vars

\* C23: whatever count values add_sighting requests submit, every stored
\* Sighting has count >= 1; a submission with count 0 or a negative count
\* stores nothing.
C23_StoredCountAtLeastOne ==
    \A s \in DOMAIN sightings : sightings[s].count >= 1

----------------------------------------------------------------------------
(* Requests in progress at the same time.  The views run outside any       *)
(* transaction, so each query of a handler commits or reads on its own and *)
(* the queries of another request may run between two of them.             *)

\* location_edit, POST, from get_object_or_404 to the end of the walk
\* `while current:`; a request that passes the walk holds its bound form.
location_edit_walk(r, location_id, name, parent) ==
    /\ inflight[r] = Idle
    /\ UNCHANGED <<locations, next_location_id, sightings, next_sighting_id, catalogue>>
    /\ IF location_id \notin DOMAIN locations
       THEN /\ UNCHANGED inflight
            /\ response' = [view |-> "location_edit", status |-> "404"]
       ELSE IF ~LocationForm_is_valid(locations, name, parent)
       THEN /\ UNCHANGED inflight
            /\ response' = [view |-> "location_edit", status |-> "form_errors"]
       ELSE LET walk == circular_walk(locations, parent, location_id,
                                      Cardinality(DOMAIN locations))
            IN IF walk = "circular"
               THEN /\ UNCHANGED inflight
                    /\ response' = [view |-> "location_edit", status |-> "circular",
                                    location_id |-> location_id, new_parent |-> parent]
               ELSE IF walk = "diverges"
               THEN /\ UNCHANGED inflight
                    /\ response' = [view |-> "location_edit", status |-> "hang"]
               ELSE /\ inflight' = [inflight EXCEPT ![r] =
                            [view |-> "location_edit", location_id |-> location_id,
                             location_name |-> name, parent_location |-> parent]]
                    /\ UNCHANGED response

\* location_edit, POST, from `form.save()` on: the row of the instance is
\* written with the fields of the form (inserted again if it is gone).
location_edit_save(r) ==
    /\ inflight[r].view = "location_edit"
    /\ UNCHANGED <<next_location_id, sightings, next_sighting_id, catalogue>>
    /\ locations' = [id \in DOMAIN locations \cup {inflight[r].location_id} |->
           IF id = inflight[r].location_id
           THEN [location_name |-> inflight[r].location_name,
                 parent_location |-> inflight[r].parent_location]
           ELSE locations[id]]
    /\ response' = [view |-> "location_edit", status |-> "redirect",
                    location_id |-> inflight[r].location_id]
    /\ inflight' = [inflight EXCEPT ![r] = Idle]

\* The concurrent edit specification: locations added one request at a
\* time, and location_edit requests in progress together.
NextConcurrentEdit ==
    \/ \E p \in LocationIds \cup {NoLocation} : location_add("POST", 1, p)
    \/ \E r \in Requests, l \in LocationIds, p \in LocationIds \cup {NoLocation} :
          location_edit_walk(r, l, 1, p)
    \/ \E r \in Requests : location_edit_save(r)

SpecConcurrentEdit == Init /\ [][NextConcurrentEdit]_vars

\* C24: with location_edit requests running concurrently, the walk and the
\* save of each being separate steps, no location is ever its own ancestor.
C24_ConcurrentEditsKeepAcyclic ==
    \A l \in DOMAIN locations :
        l \notin ParentsWithin(locations, l, Cardinality(DOMAIN locations))

\* bird_delete from get_object_or_404 to the test `sighting_count > 0`; a
\* request that finds no sighting holds its bird.
bird_delete_check(r, bird_id) ==
    /\ inflight[r] = Idle
    /\ UNCHANGED <<locations, next_location_id, sightings, next_sighting_id, catalogue>>
    /\ IF bird_id \notin DOMAIN birds
       THEN /\ UNCHANGED inflight
            /\ response' = [view |-> "bird_delete", status |-> "404",
                            bird_id |-> bird_id]
       ELSE IF Cardinality({s \in DOMAIN sightings :
                               sightings[s].bird = bird_id}) > 0
       THEN /\ UNCHANGED inflight
            /\ response' = [view |-> "bird_delete", status |-> "json",
                            bird_id |-> bird_id, success |-> FALSE]
       ELSE /\ inflight' = [inflight EXCEPT ![r] =
                   [view |-> "bird_delete", bird_id |-> bird_id]]
            /\ UNCHANGED response

\* bird_delete from `bird_obj.delete()` on.
bird_delete_delete(r) ==
    /\ inflight[r].view = "bird_delete"
    /\ UNCHANGED <<locations, next_location_id, next_sighting_id, next_bird_id,
                   families, next_family_id, trips, next_trip_id>>
    /\ delete_bird(inflight[r].bird_id)
    /\ response' = [view |-> "bird_delete", status |-> "json",
                    bird_id |-> inflight[r].bird_id, success |-> TRUE]
    /\ inflight' = [inflight EXCEPT ![r] = Idle]

\* location_delete from get_object_or_404 to the tests of sighting_count
\* and child_count; a request that finds neither holds its location.
location_delete_check(r, location_id) ==
    /\ inflight[r] = Idle
    /\ UNCHANGED <<locations, next_location_id, sightings, next_sighting_id, catalogue>>
    /\ IF location_id \notin DOMAIN locations
       THEN /\ UNCHANGED inflight
            /\ response' = [view |-> "location_delete", status |-> "404",
                            location_id |-> location_id]
       ELSE IF sighting_count(location_id) > 0
       THEN /\ UNCHANGED inflight
            /\ response' = [view |-> "location_delete", status |-> "json",
                            location_id |-> location_id,
                            success |-> FALSE, blocked_by |-> "sightings"]
       ELSE IF child_count(location_id) > 0
       THEN /\ UNCHANGED inflight
            /\ response' = [view |-> "location_delete", status |-> "json",
                            location_id |-> location_id,
                            success |-> FALSE, blocked_by |-> "children"]
       ELSE /\ inflight' = [inflight EXCEPT ![r] =
                   [view |-> "location_delete", location_id |-> location_id]]
            /\ UNCHANGED response

\* location_delete from `location_obj.delete()` on.
location_delete_delete(r) ==
    /\ inflight[r].view = "location_delete"
    /\ UNCHANGED <<next_location_id, next_sighting_id, catalogue>>
    /\ delete_locations({inflight[r].location_id})
    /\ response' = [view |-> "location_delete", status |-> "json",
                    location_id |-> inflight[r].location_id,
                    success |-> TRUE, blocked_by |-> "nothing"]
    /\ inflight' = [inflight EXCEPT ![r] = Idle]

\* trip_delete, POST, from get_object_or_404 to the end of
\* `Sighting.objects.filter(trip=trip).update(trip=None)`.
trip_delete_dereference(r, trip_id) ==
    /\ inflight[r] = Idle
    /\ UNCHANGED <<locations, next_location_id, next_sighting_id, catalogue>>
    /\ IF trip_id \notin DOMAIN trips
       THEN /\ UNCHANGED <<sightings, inflight>>
            /\ response' = [view |-> "trip_delete", status |-> "404",
                            trip_id |-> trip_id]
       ELSE /\ sightings' = dereference_trip(sightings, trip_id)
            /\ inflight' = [inflight EXCEPT ![r] =
                   [view |-> "trip_delete", trip_id |-> trip_id,
                    sighting_count |-> Cardinality({s \in DOMAIN sightings :
                                           sightings[s].trip = trip_id})]]
            /\ UNCHANGED response

\* trip_delete, POST, from `trip.delete()` on.
trip_delete_delete(r) ==
    /\ inflight[r].view = "trip_delete"
    /\ UNCHANGED <<locations, next_location_id, next_sighting_id, birds,
                   next_bird_id, families, next_family_id, next_trip_id>>
    /\ sightings' = cascade_trip(sightings, inflight[r].trip_id)
    /\ trips' = Restrict(trips, DOMAIN trips \ {inflight[r].trip_id})
    /\ response' = [view |-> "trip_delete", status |-> "redirect",
                    trip_id |-> inflight[r].trip_id,
                    sighting_count |-> inflight[r].sighting_count]
    /\ inflight' = [inflight EXCEPT ![r] = Idle]

\* A database holding the birds, two top-level locations and one trip, and
\* no sighting.
InitConcurrentDelete ==
    /\ locations = [id \in 1..2 |->
                       [location_name |-> 1, parent_location |-> NoLocation]]
    /\ next_location_id = 3
    /\ sightings = <<>>
    /\ next_sighting_id = 1
    /\ birds = [b \in Birds |-> [english_name |-> 1, family |-> NoFamily]]
    /\ next_bird_id = MaxBirdId + 1
    /\ families = <<>>
    /\ next_family_id = 1
    /\ trips = [t \in {1} |-> [trip_name |-> 1, start_date |-> CatalogueDate,
                               end_date |-> CatalogueDate]]
    /\ next_trip_id = 2
    /\ response = NoResponse
    /\ inflight = NoRequests

\* The concurrent delete specification: delete requests in progress
\* together with add_sighting requests.
NextConcurrentDelete ==
    \/ /\ next_sighting_id <= MaxSightingId
       /\ \E b \in Birds, l \in 1..2, t \in {NoTrip, 1} :
             add_sighting(b, l, t, CatalogueDate)
    \/ \E r \in Requests, b \in Birds : bird_delete_check(r, b)
    \/ \E r \in Requests : bird_delete_delete(r)
    \/ \E r \in Requests, l \in 1..2 : location_delete_check(r, l)
    \/ \E r \in Requests : location_delete_delete(r)
    \/ \E r \in Requests, t \in {1} : trip_delete_dereference(r, t)
    \/ \E r \in Requests : trip_delete_delete(r)

SpecConcurrentDelete == InitConcurrentDelete /\ [][NextConcurrentDelete]_vars

\* C25: bird_delete, location_delete and trip_delete remove no Sighting,
\* whatever add_sighting commits between their steps: every sighting of a
\* state is still stored in the next state.
C25_DeleteViewsRemoveNoSighting ==
    [][\A s \in DOMAIN sightings : s \in DOMAIN sightings']_vars

\* yearlist from its first line to the end of pagination: the queries
\* behind bird_sightings and the entries are evaluated, and the request
\* holds the entries and the page.
yearlist_entries(r, year, page_size, page) ==
    /\ inflight[r] = Idle
    /\ UNCHANGED <<locations, next_location_id, sightings, next_sighting_id,
                   catalogue, response>>
    /\ LET filtered_sightings == yearlist_filter(sightings, year).filtered_sightings
       IN \E bird_sightings \in
              order_by_last_seen_desc(values_bird_annotate(sightings,
                                                           filtered_sightings)) :
            LET rows == rows_with_first_sighting(sightings, filtered_sightings,
                                                 bird_sightings)
                entries == [i \in 1..Len(rows) |->
                    list_entry(sightings, filtered_sightings, rows[i])]
            IN inflight' = [inflight EXCEPT ![r] =
                   [view |-> "yearlist",
                    request |-> [year |-> year, month |-> AbsentParam,
                                 page_size |-> page_size, page |-> page],
                    entries |-> entries,
                    pg |-> yearlist_paginate(entries, page_size, page),
                    bird_sightings_len |-> Len(bird_sightings)]]

\* yearlist from `year_stats = None` on: the statistics queries and
\* years_data are evaluated on the store as it is now.
yearlist_stats(r) ==
    /\ inflight[r].view = "yearlist"
    /\ UNCHANGED <<locations, next_location_id, sightings, next_sighting_id, catalogue>>
    /\ LET held == inflight[r]
           year_int == yearlist_filter(sightings, held.request.year).year
           filtered_sightings ==
               yearlist_filter(sightings, held.request.year).filtered_sightings
           year_stats ==
               IF year_int # NoPeriod
               THEN [present |-> TRUE,
                     total_sightings |-> Cardinality(filtered_sightings),
                     unique_species |-> held.bird_sightings_len,
                     new_species |-> Cardinality(
                         species_of(sightings, filtered_sightings)
                         \ previous_years_species(sightings, year_int))]
               ELSE NoStats
       IN response' =
          [view |-> "yearlist", status |-> "200",
           request |-> held.request,
           all_entries |-> held.entries,
           lifelist_entries |-> held.pg.lifelist_entries,
           total_species |-> held.bird_sightings_len,
           year |-> year_int, month |-> NoPeriod,
           stats |-> year_stats,
           available_years_data |-> available_years_with_counts(sightings),
           total_all_species |-> Cardinality(species_of(sightings, DOMAIN sightings)),
           has_page_obj |-> held.pg.has_page_obj, number |-> held.pg.number,
           num_pages |-> held.pg.num_pages, is_paginated |-> held.pg.is_paginated,
           current_page_size |-> held.request.page_size]
    /\ inflight' = [inflight EXCEPT ![r] = Idle]

\* monthlist from its first line to the end of pagination.
monthlist_entries(r, year, month, page_size, page) ==
    /\ inflight[r] = Idle
    /\ UNCHANGED <<locations, next_location_id, sightings, next_sighting_id,
                   catalogue, response>>
    /\ LET filtered_sightings ==
               monthlist_filter(sightings, year, month).filtered_sightings
       IN \E bird_sightings \in
              order_by_last_seen_desc(values_bird_annotate(sightings,
                                                           filtered_sightings)) :
            LET rows == rows_with_first_sighting(sightings, filtered_sightings,
                                                 bird_sightings)
                entries == [i \in 1..Len(rows) |->
                    monthlist_entry(sightings, filtered_sightings, rows[i])]
            IN inflight' = [inflight EXCEPT ![r] =
                   [view |-> "monthlist",
                    request |-> [year |-> year, month |-> month,
                                 page_size |-> page_size, page |-> page],
                    entries |-> entries,
                    pg |-> monthlist_paginate(entries, page_size, page),
                    bird_sightings_len |-> Len(bird_sightings)]]

\* monthlist from `month_stats = None` on.
monthlist_stats(r) ==
    /\ inflight[r].view = "monthlist"
    /\ UNCHANGED <<locations, next_location_id, sightings, next_sighting_id, catalogue>>
    /\ LET held == inflight[r]
           period == monthlist_filter(sightings, held.request.year, held.request.month)
           month_stats ==
               IF period.year # NoPeriod /\ period.month # NoPeriod
               THEN [present |-> TRUE,
                     total_sightings |-> Cardinality(period.filtered_sightings),
                     unique_species |-> held.bird_sightings_len,
                     new_species |-> Cardinality(
                         species_of(sightings, period.filtered_sightings)
                         \ previous_species(sightings,
                               [year |-> period.year, month |-> period.month,
                                day |-> 1]))]
               ELSE NoStats
       IN IF held.request.year.kind = "absent" /\ held.request.month.kind # "absent"
          THEN response' = [view |-> "monthlist", status |-> "TypeError",
                            request |-> held.request]
          ELSE response' =
               [view |-> "monthlist", status |-> "200",
                request |-> held.request,
                all_entries |-> held.entries,
                lifelist_entries |-> held.pg.lifelist_entries,
                total_species |-> held.bird_sightings_len,
                year |-> period.year, month |-> period.month,
                stats |-> month_stats,
                available_years_data |-> available_years_data(sightings),
                total_all_species |-> Cardinality(species_of(sightings, DOMAIN sightings)),
                has_page_obj |-> held.pg.has_page_obj, number |-> held.pg.number,
                num_pages |-> held.pg.num_pages, is_paginated |-> held.pg.is_paginated,
                current_page_size |-> held.request.page_size]
    /\ inflight' = [inflight EXCEPT ![r] = Idle]

\* The concurrent list specification: yearlist and monthlist requests in
\* progress while add_sighting requests commit.
\* The dates submitted to add_sighting in this specification: one day of
\* each year.
ConcurrentListDates ==
    {[year |-> 2022, month |-> 1, day |-> 1], [year |-> 2023, month |-> 1, day |-> 1]}

NextConcurrentList ==
    \/ /\ next_sighting_id <= MaxSightingId
       /\ \E b \in Birds, d \in ConcurrentListDates : add_sighting(b, 1, NoTrip, d)
    \/ \E r \in Requests : yearlist_entries(r, IntParam(2023), AllParam, AbsentParam)
    \/ \E r \in Requests : yearlist_stats(r)
    \/ \E r \in Requests :
          monthlist_entries(r, IntParam(2023), IntParam(1), AllParam, AbsentParam)
    \/ \E r \in Requests : monthlist_stats(r)

SpecConcurrentList == InitList /\ [][NextConcurrentList]_vars

\* The sum of total_sightings over the first n entries of a list.
RECURSIVE SumTotalSightings(_, _)
SumTotalSightings(entries, n) ==
    IF n = 0 THEN 0
    ELSE entries[n].total_sightings + SumTotalSightings(entries, n - 1)

\* The yearlist or monthlist response of the state is the one that the
\* store `table` gives for the request.
ResponseFromStore(table) ==
    LET req == response.request
        matching == IF response.view = "yearlist"
                    THEN yearlist_filter(table, req.year).filtered_sightings
                    ELSE monthlist_filter(table, req.year, req.month).filtered_sightings
        species == {table[s].bird : s \in matching}
        earlier == IF response.view = "yearlist"
                   THEN {table[s].bird : s \in {x \in DOMAIN table :
                            table[x].date_seen.year < response.year}}
                   ELSE {table[s].bird : s \in {x \in DOMAIN table :
                            DateLt(table[x].date_seen,
                                   [year |-> response.year,
                                    month |-> response.month, day |-> 1])}}
        entries == response.all_entries
    IN /\ Len(entries) = Cardinality(species)
       /\ {entries[i].bird : i \in 1..Len(entries)} = species
       /\ \A i \in 1..Len(entries) :
             entries[i].total_sightings =
                 Cardinality({s \in matching : table[s].bird = entries[i].bird})
       /\ response.total_species = Cardinality(species)
       /\ response.stats.present =>
             /\ response.stats.total_sightings = Cardinality(matching)
             /\ response.stats.unique_species = Cardinality(species)
             /\ response.stats.new_species = Cardinality(species \ earlier)

\* C26: every yearlist and monthlist response is the response of one single
\* state of the sighting store (the store after some number of the
\* add_sighting requests), also when an add_sighting commits between the
\* view's queries; in particular new_species <= unique_species =
\* total_species, and the stats' total_sightings is the sum of the entries'
\* total_sightings.
C26_ResponseIsOfOneStore ==
    (response.view \in {"yearlist", "monthlist"} /\ response.status = "200") =>
        /\ \E k \in 0..Cardinality(DOMAIN sightings) :
              ResponseFromStore(Restrict(sightings, 1..k))
        /\ response.stats.present =>
              /\ response.stats.new_species <= response.stats.unique_species
              /\ response.stats.unique_species = response.total_species
              /\ response.stats.total_sightings =
                     SumTotalSightings(response.all_entries,
                                       Len(response.all_entries))

----------------------------------------------------------------------------
(* Properties of monthlist's parameters and of the entry flags.            *)

\* C27: monthlist completes without raising for every combination of
\* absent, valid and invalid year and month; a request with month but
\* without year gets the unfiltered view, with month reported as absent.
C27_MonthlistAlwaysCompletes ==
    response.view = "monthlist" =>
        /\ response.status = "200"
        /\ (response.request.year.kind = "absent"
            /\ response.request.month.kind # "absent") =>
              /\ response.year = NoPeriod
              /\ response.month = NoPeriod
              /\ ~response.stats.present
              /\ {response.all_entries[i].bird :
                     i \in 1..Len(response.all_entries)}
                    = {sightings[s].bird : s \in DOMAIN sightings}

\* C28: in lifelist, yearlist and monthlist an entry's is_recent, and in
\* locationlist its is_recent_only, is true exactly when the bird has one
\* sighting in the view's timeframe: when the entry's total_sightings is 1.
C28_RecentIffSeenOnce ==
    /\ (response.view \in {"lifelist", "yearlist", "monthlist"}
        /\ response.status = "200") =>
          \A i \in 1..Len(response.all_entries) :
              response.all_entries[i].is_recent
                  <=> (response.all_entries[i].total_sightings = 1)
    /\ (response.view = "locationlist" /\ response.status = "200") =>
          \A i \in 1..Len(response.all_entries) :
              response.all_entries[i].is_recent_only
                  <=> (response.all_entries[i].total_sightings = 1)

\* C29: in monthlist with a valid year and a month in 1..12, on an
\* unchanging store, the entries over all pages flagged is_lifelist_addition
\* are as many as month_stats.new_species.
C29_LifelistAdditionsCountNewSpecies ==
    (/\ response.view = "monthlist"
     /\ response.status = "200"
     /\ response.stats.present) =>
        Cardinality({i \in 1..Len(response.all_entries) :
                        response.all_entries[i].is_lifelist_addition})
            = response.stats.new_species

\* C29 witness: monthlist for a month has listed one bird first seen on
\* the first day of that month, flagged, and one bird seen before it, not
\* flagged.
C29_Witness ==
    /\ response.view = "monthlist"
    /\ response.status = "200"
    /\ response.stats.present
    /\ response.stats.new_species = 1
    /\ \E i, j \in 1..Len(response.all_entries) :
          /\ response.all_entries[i].is_lifelist_addition
          /\ response.all_entries[i].first_seen_date.day = 1
          /\ ~response.all_entries[j].is_lifelist_addition

----------------------------------------------------------------------------
(* The bulk delete specification: locations added, sightings recorded, and *)
(* selections of locations and of birds deleted in bulk.                   *)

NextBulk ==
    \/ \E p \in LocationIds \cup {NoLocation} : location_add("POST", 1, p)
    \/ /\ next_sighting_id <= MaxSightingId
       /\ \E b \in Birds, l \in LocationIds :
             add_sighting(b, l, NoTrip, CatalogueDate)
    \/ \E sel \in SUBSET LocationIds : location_bulk_delete(sel)
    \/ \E sel \in {BirdSelection(ids) : ids \in SUBSET Birds} \cup {BadBirdSelection} :
          bird_bulk_delete(sel)

SpecBulk == Init /\ [][NextBulk]_vars

\* A stored location with a sighting or a child location; a stored bird
\* with a sighting.
BlockedLocation(l) ==
    \/ \E s \in DOMAIN sightings : sightings[s].location = l
    \/ \E c \in DOMAIN locations : locations[c].parent_location = l
BlockedBird(b) == \E s \in DOMAIN sightings : sightings[s].bird = b

====
